---- MODULE Spec2Model ----
(***************************************************************************)
(* CutBoard (ericsongcz/cutboard): the clipboard monitor of                *)
(* src-tauri/src/clipboard.rs, the copy-back command of                    *)
(* src-tauri/src/commands.rs and the persistence calls of                  *)
(* src-tauri/src/database.rs they use.                                     *)
(*                                                                         *)
(* Spec        the monitor thread (window procedure, debounce timer,       *)
(*             on_clipboard_change) interleaved with the copy-back command *)
(*             and with other applications writing the clipboard.          *)
(* FairSpec    Spec with the fairness of the Win32 message loop.           *)
(* SpecGate    the dedup gate of on_clipboard_change on a sequence of      *)
(*             contents.                                                   *)
(* SpecExtract read_clipboard_content on every combination of clipboard    *)
(*             formats.                                                    *)
(***************************************************************************)
EXTENDS Integers, Sequences, FiniteSets, TLC

VARIABLES
    armed,              \* the debounce timer DEBOUNCE_TIMER_ID is set
    remaining,          \* milliseconds until the armed timer is due
    queue,              \* posted WM_CLIPBOARDUPDATE messages not yet dispatched
    loopRunning,        \* the GetMessageW loop of run_windows_monitor is alive
    PENDING_APP_INFO,   \* Option<AppWindowInfo>
    IGNORE_NEXT,        \* AtomicBool
    LAST_CONTENT_HASH,  \* String
    clipboard,          \* the formats the OS clipboard holds
    clipboardOpen,      \* the monitor thread holds the clipboard open
    apps,               \* table apps: exe paths, the id is the position
    entries,            \* table clipboard_entries, the id is the position
    files,              \* file names in images_dir
    cmd,                \* copy_entry_to_clipboard: where the command stands
    ev,                 \* what the step just taken did, when it was a WM_TIMER dispatch
    trail,        \* how each settled event so far ended
    lastCapture,        \* what get_foreground_app returned at the last raw signal
    burst,              \* origins of the raw signals dispatched since the last expiry
    posted,             \* raw signals posted so far
    bursts,             \* times the timer went from unset to set
    settled,            \* times on_clipboard_change was called
    gateLog,            \* SpecGate: the decisions of the dedup gate, in order
    result,             \* SpecExtract: the bundle read_clipboard_content returned
    probe,              \* a function called on its own: its name, argument and result
    poisoned,           \* the mutexes a holder has panicked under
    IMAGE_B64_CACHE,    \* Mutex<ImageLruCache>
    ICON_CACHE,         \* Mutex<LruIconCache>
    cacheTrace          \* the calls made on a cache: keys handed out, last call, order of use

vars == <<armed, remaining, queue, loopRunning, PENDING_APP_INFO, IGNORE_NEXT,
          LAST_CONTENT_HASH, clipboard, clipboardOpen, apps, entries, files, cmd,
          ev, trail, lastCapture, burst, posted, bursts, settled, gateLog,
          result, probe, poisoned, IMAGE_B64_CACHE, ICON_CACHE,
          cacheTrace>>

(***************************************************************************)
(* Bounds of the model.                                                    *)
(***************************************************************************)
MaxSignals == 2
MaxQueue == 2
MaxObs == 4
TickMs == 150

(***************************************************************************)
(* Option<T>.                                                              *)
(***************************************************************************)
None == [tag |-> "None"]
Some(v) == [tag |-> "Some", val |-> v]
IsSome(o) == o.tag = "Some"
IsNone(o) == o.tag = "None"

(***************************************************************************)
(* Strings are sequences of characters; as_bytes is their UTF-8 encoding.  *)
(***************************************************************************)
Chars == {" ", "a", "b", "e_acute"}
Whitespace == {" ", "\n", "\r", "\t"}

Utf8(c) ==
    CASE c = " " -> <<32>>
      [] c = "a" -> <<97>>
      [] c = "b" -> <<98>>
      [] c = "e_acute" -> <<195, 169>>
      [] c = "0" -> <<48>> [] c = "1" -> <<49>> [] c = "2" -> <<50>> [] c = "3" -> <<51>>
      [] c = "4" -> <<52>> [] c = "5" -> <<53>> [] c = "6" -> <<54>> [] c = "7" -> <<55>>
      [] c = "8" -> <<56>> [] c = "9" -> <<57>> [] c = "-" -> <<45>> [] c = "e" -> <<101>>
      [] c = "k" -> <<107>> [] c = "n" -> <<110>> [] c = "o" -> <<111>> [] c = "t" -> <<116>>
      [] c = "\t" -> <<9>> [] c = "\n" -> <<10>> [] c = "\r" -> <<13>>
      [] c = "E" -> <<69>> [] c = "K" -> <<75>> [] c = "N" -> <<78>> [] c = "O" -> <<79>>
      [] c = "T" -> <<84>>
      [] c = "u5bc6" -> <<229, 175, 134>> [] c = "u7801" -> <<231, 160, 129>>

RECURSIVE as_bytes(_)
as_bytes(t) == IF t = <<>> THEN <<>> ELSE Utf8(Head(t)) \o as_bytes(Tail(t))

RECURSIVE trim_start(_)
trim_start(t) ==
    IF t # <<>> /\ Head(t) \in Whitespace THEN trim_start(Tail(t)) ELSE t

RECURSIVE trim_end(_)
trim_end(t) ==
    IF t # <<>> /\ t[Len(t)] \in Whitespace
    THEN trim_end(SubSeq(t, 1, Len(t) - 1))
    ELSE t

trim(t) == trim_end(trim_start(t))

(***************************************************************************)
(* compute_content_hash: 64-bit FNV-1a, as eight 8-bit limbs (least        *)
(* significant first) so that no intermediate value leaves TLC's integers. *)
(***************************************************************************)
FNV_OFFSET_BASIS == <<37, 35, 34, 132, 228, 156, 242, 203>>  \* 0xcbf29ce484222325
FNV_PRIME_LOW == 435                                         \* 0x1b3
FNV_PRIME_SHIFT == 5                                         \* 0x100000001b3 = 2^40 + 0x1b3

RECURSIVE BitXor(_, _, _)
BitXor(a, b, n) ==
    IF n = 0 THEN 0
    ELSE (((a % 2) + (b % 2)) % 2) + 2 * BitXor(a \div 2, b \div 2, n - 1)

XorByte(h, byte) == [h EXCEPT ![1] = BitXor(h[1], byte, 8)]

RECURSIVE MulLimbs(_, _, _)
MulLimbs(h, i, carry) ==
    IF i > 8 THEN <<>>
    ELSE LET shifted == IF i > FNV_PRIME_SHIFT THEN h[i - FNV_PRIME_SHIFT] ELSE 0
             r == (h[i] * FNV_PRIME_LOW) + shifted + carry
         IN  <<r % 256>> \o MulLimbs(h, i + 1, r \div 256)

wrapping_mul(h) == MulLimbs(h, 1, 0)

\* FNV-1: multiply, then xor the byte
RECURSIVE Fnv1(_, _)
Fnv1(h, data) ==
    IF data = <<>> THEN h
    ELSE Fnv1(XorByte(wrapping_mul(h), Head(data)), Tail(data))

RECURSIVE Fnv1a(_, _)
Fnv1a(h, data) ==
    IF data = <<>> THEN h
    ELSE Fnv1a(wrapping_mul(XorByte(h, Head(data))), Tail(data))

HexDigit == <<"0", "1", "2", "3", "4", "5", "6", "7",
              "8", "9", "a", "b", "c", "d", "e", "f">>

RECURSIVE format_016x(_, _)
format_016x(h, i) ==
    IF i = 0 THEN <<>>
    ELSE <<HexDigit[(h[i] \div 16) + 1], HexDigit[(h[i] % 16) + 1]>>
         \o format_016x(h, i - 1)

compute_content_hash(data) == format_016x(Fnv1a(FNV_OFFSET_BASIS, data), 8)

(***************************************************************************)
(* The clipboard: one payload per format.  A format is None when the       *)
(* clipboard does not hold it (GetClipboardData fails or GlobalLock        *)
(* returns null), TooBig stands for a text payload of more than            *)
(* MAX_TEXT_BYTES bytes.  A DIB payload carries its size and what          *)
(* dib_to_png returns for it.                                              *)
(***************************************************************************)
TooBig == [tag |-> "TooBig"]
NUL == "NUL"

PNG_MAGIC == <<137, 80, 78, 71>>
PngA == <<137, 80, 78, 71, 13, 10, 26, 10, 1>>
PngB == <<137, 80, 78, 71, 13, 10, 26, 10, 2>>
NotPng == <<66, 77, 1, 2, 3, 4, 5, 6, 7>>

PngA_reencoded == <<137, 80, 78, 71, 13, 10, 26, 10, 3>>

DibGood == [size |-> 44, decoded |-> Some(PngB)]
DibBad == [size |-> 44, decoded |-> None]

\* The contents the monitor meets below, with their hashes worked out once
HashedContents == {as_bytes(<<"a">>), as_bytes(<<"b">>), PngA, PngB, PngA_reencoded}
HashOf == [data \in HashedContents |-> compute_content_hash(data)]

content_hash(data) ==
    IF data \in HashedContents THEN HashOf[data] ELSE compute_content_hash(data)

EmptyClipboard ==
    [html |-> None, unicode |-> None, ansi |-> None, png |-> None,
     image_png |-> None, dibv5 |-> None, dib |-> None, owner |-> "none"]

ClipboardContent(text, image, source_url, html) ==
    [text |-> text, image |-> image, source_url |-> source_url, html |-> html]

EmptyContent == ClipboardContent(None, None, None, None)

IsBlank(t) == trim(t) = <<>>

\* clipboard.rs:456-467; firstOk is the attempt at which OpenClipboard
\* succeeds, 0 when it never does.
\* a loop that sleeps after every failed attempt
sleep_always(i, max_retries) == TRUE

\* clipboard.rs:462: if i < max_retries - 1 { sleep(50 ms) }
sleep_after(i, max_retries) == i < max_retries - 1

\* clipboard.rs:458-466: the loop from attempt i on (i counts from 0);
\* OpenClipboard succeeds at attempt number firstOk and fails before it
RECURSIVE open_loop(_, _, _, _)
open_loop(max_retries, firstOk, i, sleeps) ==
    IF i >= max_retries THEN [ok |-> FALSE, attempts |-> i, sleeps |-> sleeps]
    ELSE IF firstOk = i + 1 THEN [ok |-> TRUE, attempts |-> i + 1, sleeps |-> sleeps]
    ELSE open_loop(max_retries, firstOk, i + 1,
                   IF sleep_after(i, max_retries) THEN sleeps + 1 ELSE sleeps)

open_clipboard_with_retry(max_retries, firstOk) ==
    open_loop(max_retries, firstOk, 0, 0).ok

RECURSIVE take_while_not_nul(_)
take_while_not_nul(units) ==
    IF units = <<>> \/ Head(units) = NUL THEN <<>>
    ELSE <<Head(units)>> \o take_while_not_nul(Tail(units))

\* clipboard.rs:538-552
read_unicode_text(payload) ==
    IF IsNone(payload) THEN None
    ELSE IF payload.tag = "TooBig" THEN None
    ELSE Some(take_while_not_nul(payload.val))

RECURSIVE until_zero(_)
until_zero(bytes) ==
    IF bytes = <<>> \/ Head(bytes) = 0 THEN <<>>
    ELSE <<Head(bytes)>> \o until_zero(Tail(bytes))

\* b as char, also the character an ASCII byte decodes to
byte_as_char(b) ==
    CASE b = 32 -> " "
      [] b = 97 -> "a"
      [] b = 98 -> "b"
      [] b = 233 -> "e_acute"

RECURSIVE map_bytes(_)
map_bytes(bytes) ==
    IF bytes = <<>> THEN <<>>
    ELSE <<byte_as_char(Head(bytes))>> \o map_bytes(Tail(bytes))

\* std::str::from_utf8 on the bytes the model uses: a byte below 128 is a
\* character, a lone 0xE9 is an invalid sequence.
from_utf8(bytes) ==
    IF \A i \in 1..Len(bytes) : bytes[i] < 128
    THEN [ok |-> TRUE, s |-> map_bytes(bytes)]
    ELSE [ok |-> FALSE, s |-> <<>>]

\* clipboard.rs:555-576
read_ansi_text(payload) ==
    IF IsNone(payload) THEN None
    ELSE IF payload.tag = "TooBig" THEN None
    ELSE IF Len(payload.val) = 0 THEN None
    ELSE LET bytes == until_zero(payload.val)
             utf == from_utf8(bytes)
         IN  Some(IF utf.ok THEN utf.s ELSE map_bytes(bytes))

starts_with(s, prefix) ==
    Len(s) >= Len(prefix) /\ SubSeq(s, 1, Len(prefix)) = prefix

\* clipboard.rs:597-619, one registered PNG format
read_png_format(payload) ==
    IF IsSome(payload) /\ Len(payload.val) > 8 /\ starts_with(payload.val, PNG_MAGIC)
    THEN Some(payload.val)
    ELSE None

\* clipboard.rs:590-657
try_read_clipboard_image(clip) ==
    LET p1 == read_png_format(clip.png)
        p2 == read_png_format(clip.image_png)
        v5 == IF IsSome(clip.dibv5) /\ clip.dibv5.val.size > 0
              THEN clip.dibv5.val.decoded ELSE None
    IN  IF IsSome(p1) THEN p1
        ELSE IF IsSome(p2) THEN p2
        ELSE IF IsSome(v5) THEN v5
        ELSE IF IsSome(clip.dib) /\ clip.dib.val.size > 0 THEN clip.dib.val.decoded
        ELSE None

\* result.text.as_ref().map_or(true, |t| t.trim().is_empty())
no_usable_text(text) == IsNone(text) \/ IsBlank(text.val)

\* the image read whatever the text
image_always(text) == TRUE

\* clipboard.rs:578-581: when the image is read
image_wanted(text) == no_usable_text(text)

\* clipboard.rs:470-587
read_clipboard_content(clip, firstOk) ==
    IF ~open_clipboard_with_retry(5, firstOk) THEN EmptyContent
    ELSE LET source_url == IF IsSome(clip.html) THEN clip.html.val.SourceURL ELSE None
             html == IF IsSome(clip.html) THEN clip.html.val.fragment ELSE None
             uni == read_unicode_text(clip.unicode)
             text == IF IsNone(uni) THEN read_ansi_text(clip.ansi) ELSE uni
             image == IF image_wanted(text) THEN try_read_clipboard_image(clip)
                      ELSE None
         IN  ClipboardContent(text, image, source_url, html)

(***************************************************************************)
(* Source-URL reconciliation, clipboard.rs:317-334.                        *)
(***************************************************************************)
HTTP == <<"h", "t", "t", "p", ":", "/", "/">>
HTTPS == <<"h", "t", "t", "p", "s", ":", "/", "/">>

\* a check that lets every scheme through
any_scheme(s) == TRUE

\* url.starts_with("http://") || url.starts_with("https://")
is_http_url(s) == starts_with(s, HTTP) \/ starts_with(s, HTTPS)

\* a check that takes every text for a single line
never_multiline(s) == FALSE

\* trimmed.contains('\n')
contains_newline(s) == \E i \in 1..Len(s) : s[i] = "\n"

reconcile_source_url(content) ==
    LET kept == IF IsSome(content.source_url) /\ ~is_http_url(content.source_url.val)
                THEN None ELSE content.source_url
        trimmed == IF IsSome(content.text) THEN trim(content.text.val) ELSE <<>>
    IN  [content EXCEPT !.source_url =
            IF IsNone(kept) /\ IsSome(content.text)
               /\ is_http_url(trimmed) /\ ~contains_newline(trimmed)
            THEN Some(trimmed) ELSE kept]

(***************************************************************************)
(* sensitive.rs.  A text is a sequence of characters and a position in it  *)
(* counts the characters before it, as a byte offset does in a text of     *)
(* one-byte characters.  A regex is its assertion before, its alternatives *)
(* in the order written, each a sequence of repeated character classes,    *)
(* and its assertion after.                                                *)
(***************************************************************************)
Digits == {"0", "1", "2", "3", "4", "5", "6", "7", "8", "9"}
Letters == {"a", "b", "e", "k", "n", "o", "t"}
Alphabet == <<"a", "b", "c", "d", "e", "f", "g", "h", "i", "j", "k", "l", "m",
              "n", "o", "p", "q", "r", "s", "t", "u", "v", "w", "x", "y", "z">>
Capitals == <<"A", "B", "C", "D", "E", "F", "G", "H", "I", "J", "K", "L", "M",
              "N", "O", "P", "Q", "R", "S", "T", "U", "V", "W", "X", "Y", "Z">>
Between(letters, lo, hi) == {letters[i] : i \in lo..hi}
AnyCase(lo, hi) == Between(Alphabet, lo, hi) \cup Between(Capitals, lo, hi)
WordChars ==
    Digits \cup AnyCase(1, 26) \cup {"_", "e_acute", "u5bc6", "u7801"}

\* a lowering that leaves every character as it is
keep_case(c) == c

\* char::to_lowercase on the characters above
lower(c) ==
    IF \E i \in 1..26 : Capitals[i] = c
    THEN Alphabet[CHOOSE i \in 1..26 : Capitals[i] = c]
    ELSE c

to_lowercase(text) == [i \in 1..Len(text) |-> lower(text[i])]
Space == {" ", "\t", "\n", "\r"}

to_digit(c) ==
    CASE c = "0" -> 0 [] c = "1" -> 1 [] c = "2" -> 2 [] c = "3" -> 3
      [] c = "4" -> 4 [] c = "5" -> 5 [] c = "6" -> 6 [] c = "7" -> 7
      [] c = "8" -> 8 [] c = "9" -> 9

\* raw.chars().filter(|c| c.is_ascii_digit())
RECURSIVE ascii_digits(_)
ascii_digits(raw) ==
    IF raw = <<>> THEN <<>>
    ELSE (IF Head(raw) \in Digits THEN <<to_digit(Head(raw))>> ELSE <<>>)
         \o ascii_digits(Tail(raw))

\* for &d in digits.iter().rev() { .. }: the sum from digit i down to the first
RECURSIVE luhn_sum(_, _, _)
luhn_sum(digits, i, double) ==
    IF i = 0 THEN 0
    ELSE LET d == digits[i]
             n == IF double THEN (IF d * 2 > 9 THEN d * 2 - 9 ELSE d * 2) ELSE d
         IN  n + luhn_sum(digits, i - 1, ~double)

\* sensitive.rs:40
card_length(n) == ~(n < 13 \/ n > 19)

luhn_check(raw) ==
    LET digits == ascii_digits(raw)
    IN  IF ~card_length(Len(digits)) THEN FALSE
        ELSE luhn_sum(digits, Len(digits), FALSE) % 10 = 0

\* \b, (?<!\d), (?!\d) and no assertion, at a position of the text
holds(assertion, text, pos) ==
    LET before(S) == pos > 0 /\ text[pos] \in S
        after(S) == pos < Len(text) /\ text[pos + 1] \in S
    IN  CASE assertion = "b" -> before(WordChars) # after(WordChars)
          [] assertion = "not_after_digit" -> ~before(Digits)
          [] assertion = "not_before_digit" -> ~after(Digits)
          [] assertion = "none" -> TRUE

\* the end of the match of atoms k.. from pos that backtracking finds first
\* (each repetition greedy), -1 when there is none
RECURSIVE match_atoms(_, _, _, _, _)
RECURSIVE try_count(_, _, _, _, _, _)
match_atoms(after, atoms, k, text, pos) ==
    IF k > Len(atoms)
    THEN (IF holds(after, text, pos) THEN pos ELSE -1)
    ELSE try_count(after, atoms, k, text, pos, atoms[k].max)

try_count(after, atoms, k, text, pos, n) ==
    IF n < atoms[k].min THEN -1
    ELSE LET fits == /\ pos + n <= Len(text)
                     /\ \A i \in 1..n : text[pos + i] \in atoms[k].cls
             rest == IF fits THEN match_atoms(after, atoms, k + 1, text, pos + n)
                     ELSE -1
         IN  IF rest # -1 THEN rest
             ELSE try_count(after, atoms, k, text, pos, n - 1)

RECURSIVE match_alts(_, _, _, _)
match_alts(re, a, text, pos) ==
    IF a > Len(re.alts) THEN -1
    ELSE LET end == match_atoms(re.after, re.alts[a], 1, text, pos)
         IN  IF end # -1 THEN end ELSE match_alts(re, a + 1, text, pos)

match_at(re, text, pos) ==
    IF holds(re.before, text, pos) THEN match_alts(re, 1, text, pos) ELSE -1

\* Regex::find_from_pos: the leftmost match that starts at pos or after it
RECURSIVE find_from_pos(_, _, _)
find_from_pos(re, text, pos) ==
    IF pos > Len(text) THEN None
    ELSE LET end == match_at(re, text, pos)
         IN  IF end # -1 THEN Some([start |-> pos, end |-> end])
             ELSE find_from_pos(re, text, pos + 1)

as_str(text, m) == SubSeq(text, m.start + 1, m.end)

validate(pat, matched) ==
    CASE pat.validate = "luhn_check" -> luhn_check(matched)

\* sensitive.rs:16-32, the loop from start on
RECURSIVE scan(_, _, _)
scan(pat, text, start) ==
    IF ~(start < Len(text)) THEN FALSE
    ELSE LET found == find_from_pos(pat.re, text, start)
         IN  IF IsNone(found) THEN FALSE
             ELSE LET m == found.val
                  IN  IF pat.validate = "none" THEN TRUE
                      ELSE IF validate(pat, as_str(text, m)) THEN TRUE
                      ELSE scan(pat, text,
                                IF m.end > start + 1 THEN m.end ELSE start + 1)

matches(pat, text) == scan(pat, text, 0)

same_start(m, start) == start

\* sensitive.rs:27, the position the next pass searches from
next_start(m, start) == IF m.end > start + 1 THEN m.end ELSE start + 1

Atom(cls, min, max) == [cls |-> cls, min |-> min, max |-> max]
D(n) == Atom(Digits, n, n)
Lit(c) == Atom({c}, 1, 1)
Opt(cls) == Atom(cls, 0, 1)
SpaceDash == Space \cup {"-"}
Isolated(alts) ==
    [before |-> "not_after_digit", alts |-> alts, after |-> "not_before_digit"]
Pattern(re) == [re |-> re, validate |-> "none"]
with_validator(re, v) == [re |-> re, validate |-> v]

\* sensitive.rs:75-78
CardPattern ==
    with_validator(
        [before |-> "b",
         alts |-> << <<D(4), Opt(SpaceDash), D(4), Opt(SpaceDash), D(4),
                       Opt(SpaceDash), Atom(Digits, 3, 4)>> >>,
         after |-> "b"],
        "luhn_check")

\* n copies of a sequence of atoms
RECURSIVE Repeat(_, _)
Repeat(atoms, n) == IF n = 0 THEN <<>> ELSE atoms \o Repeat(atoms, n - 1)

\* sensitive.rs:88, with (?:[A-Z0-9]{4}[\s]?){2,7} written out for n = 7 .. 2
IbanChars == Between(Capitals, 1, 26) \cup Digits
IbanAlt(n) ==
    <<Atom(Between(Capitals, 1, 26), 2, 2), D(2), Opt(Space),
      Atom(IbanChars, 4, 4), Opt(Space)>>
    \o Repeat(<<Atom(IbanChars, 4, 4), Opt(Space)>>, n)
    \o <<Atom(IbanChars, 1, 4)>>
IbanPattern ==
    Pattern([before |-> "b",
             alts |-> <<IbanAlt(7), IbanAlt(6), IbanAlt(5), IbanAlt(4),
                        IbanAlt(3), IbanAlt(2)>>,
             after |-> "b"])

\* sensitive.rs:71-89.  The universal patterns left out need a character
\* that Utf8 above does not encode: "@", ".", "_", "A", "I" or "J".
UNIVERSAL == <<CardPattern, IbanPattern>>

\* sensitive.rs:92-98, the keywords that Utf8 above encodes
KEYWORDS == {<<"t", "o", "k", "e", "n">>, <<"u5bc6", "u7801">>}

contains(text, kw) ==
    \E i \in 0..(Len(text) - Len(kw)) : SubSeq(text, i + 1, i + Len(kw)) = kw

\* sensitive.rs:124, (?i)[A-CEGHJ-PR-TW-Z] and (?i)[A-CEGHJ-NPR-TW-Z]
NinoFirst ==
    AnyCase(1, 3) \cup AnyCase(5, 5) \cup AnyCase(7, 8) \cup AnyCase(10, 16)
    \cup AnyCase(18, 20) \cup AnyCase(23, 26)
NinoSecond ==
    AnyCase(1, 3) \cup AnyCase(5, 5) \cup AnyCase(7, 8) \cup AnyCase(10, 14)
    \cup AnyCase(16, 16) \cup AnyCase(18, 20) \cup AnyCase(23, 26)

\* sensitive.rs:118-127
EN ==
    << Pattern(Isolated(<< <<Opt({"("}), D(3), Opt({")"}),
                            Atom(SpaceDash \cup {"."}, 1, 1), D(3),
                            Atom(SpaceDash \cup {"."}, 1, 1), D(4)>> >>)),
       Pattern(Isolated(<< <<D(3), Lit("-"), D(2), Lit("-"), D(4)>> >>)),
       Pattern([before |-> "b",
                alts |-> << <<Atom(NinoFirst, 1, 1), Atom(NinoSecond, 1, 1),
                              Opt(Space), D(2), Opt(Space), D(2), Opt(Space),
                              D(2), Opt(Space), Atom(AnyCase(1, 4), 1, 1)>> >>,
                after |-> "b"]),
       Pattern(Isolated(<< <<Lit("+"), Lit("4"), Lit("4"), Opt(SpaceDash),
                            Lit("7"), D(3), Opt(SpaceDash), D(6)>>,
                          <<Lit("0"), Lit("7"), D(3), Opt(SpaceDash), D(6)>> >>)) >>

\* sensitive.rs:130-135
JA ==
    << Pattern(Isolated(<< <<Lit("0"), Atom({"7", "8", "9"}, 1, 1), Lit("0"),
                            Opt(SpaceDash), D(4), Opt(SpaceDash), D(4)>> >>)),
       Pattern(Isolated(<< <<D(4), Opt(Space), D(4), Opt(Space), D(4)>> >>)) >>

\* sensitive.rs:260-265
ID ==
    << Pattern(Isolated(<< <<Lit("+"), Lit("6"), Lit("2"), Opt(SpaceDash),
                            Lit("8"), D(2), Opt(SpaceDash), D(4),
                            Opt(SpaceDash), Atom(Digits, 3, 4)>>,
                          <<Lit("0"), Lit("8"), D(2), Opt(SpaceDash), D(4),
                            Opt(SpaceDash), Atom(Digits, 3, 4)>> >>)),
       Pattern(Isolated(<< <<D(16)>> >>)) >>

\* sensitive.rs:277-301 for the locales above; any other tag stands for a
\* locale the application does not know
get_regional_patterns(lang) ==
    CASE lang = "en" -> EN
      [] lang = "ja" -> JA
      [] lang = "id" -> ID
      [] OTHER -> EN

\* sensitive.rs:303-323
detect_sensitive(text, language) ==
    IF Len(as_bytes(text)) < 6 THEN FALSE
    ELSE IF \E kw \in KEYWORDS : contains(to_lowercase(text), kw) THEN TRUE
    ELSE IF \E i \in 1..Len(UNIVERSAL) : matches(UNIVERSAL[i], text) THEN TRUE
    ELSE LET regional == get_regional_patterns(language)
         IN  \E i \in 1..Len(regional) : matches(regional[i], text)

(***************************************************************************)
(* database.rs: the tables as sequences, a row's id is its position.       *)
(***************************************************************************)
Min(S) == CHOOSE x \in S : \A y \in S : x <= y

COALESCE(new, old) == IF IsSome(new) THEN new ELSE old

\* database.rs:186-211
get_or_create_app(tbl, name, exe_path) ==
    LET found == {i \in 1..Len(tbl) : tbl[i].exe_path = exe_path}
    IN  IF found # {} THEN [apps |-> tbl, id |-> Min(found)]
        ELSE [apps |-> Append(tbl, [name |-> name, exe_path |-> exe_path]),
              id |-> Len(tbl) + 1]

\* a lookup that finds no row
find_none(tbl, app_id, content_type, hash) == {}

find_entry(tbl, app_id, content_type, hash) ==
    {i \in 1..Len(tbl) : /\ tbl[i].app_id = app_id
                         /\ tbl[i].content_type = content_type
                         /\ tbl[i].content_hash = hash}

\* database.rs:574-593
upsert_text_entry_with_html(tbl, app_id, text, hash, source_url, html, is_sensitive, now) ==
    LET found == find_entry(tbl, app_id, "text", hash)
    IN  IF found # {}
        THEN LET id == Min(found)
             IN  [entries |-> [tbl EXCEPT ![id].created_at = now,
                                          ![id].source_url = COALESCE(source_url, @),
                                          ![id].html_content = COALESCE(html, @)],
                  id |-> id]
        ELSE [entries |-> Append(tbl,
                  [app_id |-> app_id, content_type |-> "text",
                   text_content |-> Some(text), image_path |-> None,
                   content_hash |-> hash, source_url |-> source_url,
                   html_content |-> html, is_sensitive |-> is_sensitive,
                   created_at |-> now]),
              id |-> Len(tbl) + 1]

\* database.rs:233-251
upsert_image_entry(tbl, app_id, image_filename, hash, source_url, now) ==
    LET found == find_entry(tbl, app_id, "image", hash)
    IN  IF found # {}
        THEN LET id == Min(found)
             IN  [entries |-> [tbl EXCEPT ![id].created_at = now,
                                          ![id].source_url = COALESCE(source_url, @)],
                  id |-> id, was_duplicate |-> TRUE]
        ELSE [entries |-> Append(tbl,
                  [app_id |-> app_id, content_type |-> "image",
                   text_content |-> None, image_path |-> Some(image_filename),
                   content_hash |-> hash, source_url |-> source_url,
                   html_content |-> None, is_sensitive |-> FALSE,
                   created_at |-> now]),
              id |-> Len(tbl) + 1, was_duplicate |-> FALSE]

(***************************************************************************)
(* window_tracker.rs:50-114: what get_foreground_app can return.           *)
(***************************************************************************)
SelfApp == [name |-> "cutboard", exe_path |-> "cutboard.exe", is_self |-> TRUE]
AppA == [name |-> "A", exe_path |-> "A.exe", is_self |-> FALSE]

Foregrounds == {None, Some(SelfApp), Some(AppA)}

(***************************************************************************)
(* The monitor, clipboard.rs:206-445.                                      *)
(***************************************************************************)
DEBOUNCE_MS == 300

\* SetTimer(hwnd, DEBOUNCE_TIMER_ID, DEBOUNCE_MS): sets the timer, or
\* replaces it when it is already set
SetTimer(timer) == [armed |-> TRUE, remaining |-> DEBOUNCE_MS]

\* a Win32 timer is periodic: left alone it is due again after its period
TimerKeptRunning(timer) == [armed |-> timer.armed, remaining |-> DEBOUNCE_MS]

\* KillTimer(hwnd, DEBOUNCE_TIMER_ID)
KillTimer(timer) == [armed |-> FALSE, remaining |-> 0]

\* AtomicBool::load: reads the flag and leaves it as it is
load_only(flag, new) == [old |-> flag, new |-> flag]

\* AtomicBool::swap
swap(flag, new) == [old |-> flag, new |-> new]

\* Option::take
take(slot) == [val |-> slot, slot |-> None]

\* Mutex::lock returns Ok: no holder has panicked under the mutex
lock_is_ok(mutex, poison) == mutex \notin poison

\* clipboard.rs:226-228: if let Ok(mut pending) = PENDING_APP_INFO.lock()
store_pending(slot, info, poison) ==
    IF lock_is_ok("PENDING_APP_INFO", poison) THEN Some(info) ELSE slot

\* clipboard.rs:301: PENDING_APP_INFO.lock().ok().and_then(|mut p| p.take())
take_pending(slot, poison) ==
    IF lock_is_ok("PENDING_APP_INFO", poison) THEN take(slot)
    ELSE [val |-> None, slot |-> slot]

\* the comparison without the store of the new hash
gate_never_records(last, hash) == [suppress |-> last = hash, last |-> last]

\* clipboard.rs:340-345 and 393-398
DedupGate(last, hash) ==
    IF last = hash THEN [suppress |-> TRUE, last |-> last]
    ELSE [suppress |-> FALSE, last |-> hash]

\* the is_self check left out
never_self(app_info) == FALSE

\* clipboard.rs:309
is_self_origin(app_info) == app_info.is_self

\* the emit outside the Ok branch
emit_regardless(persisted) == 1

\* clipboard.rs:368-385 and 429-441: app.emit("clipboard-changed", ..)
emit_clipboard_changed(persisted) == IF persisted THEN 1 ELSE 0

\* the call without catch_unwind: a panic unwinds through the loop
propagate_panic(panicked) == ~panicked

\* clipboard.rs:235-237: whether the message loop goes on after the call
catch_unwind(panicked) == TRUE

NoProbe == [fn |-> "none", in |-> None, out |-> None]

Ev0 ==
    [outcome |-> "none", ctx |-> None, source |-> "none",
     fp |-> None, read |-> FALSE, changed |-> 0, toast |-> 0, ret |-> "none"]


\* How a call of on_clipboard_change ended: at the IGNORE_NEXT return, in a
\* panic, or at any other return
outcome_class(outcome) ==
    CASE outcome = "ignored" -> "ignored"
      [] outcome = "panicked" -> "panicked"
      [] OTHER -> "returned"

Finish(s, outcome) == [s EXCEPT !.ev.outcome = outcome]

\* format!("{}_{}.png", now, &hash[..8])
image_filename(now, hash) == [ts |-> now, h8 |-> SubSeq(hash, 1, 8)]

\* clipboard.rs:336-388
text_path(s, app_info, content, in) ==
    LET t == content.text.val
        hash == content_hash(as_bytes(t))
        g == DedupGate(s.LAST_CONTENT_HASH, hash)
        s1 == [s EXCEPT !.LAST_CONTENT_HASH = g.last, !.ev.fp = Some(hash)]
    IN  IF g.suppress THEN Finish(s1, "suppressed")
        ELSE IF in.panicAt = "persist"
        THEN Finish([s1 EXCEPT !.panicked = TRUE], "panicked")
        ELSE IF ~in.lookupOk THEN Finish(s1, "app_lookup_failed")
        ELSE
        LET is_sensitive == detect_sensitive(t, "en")
            a == get_or_create_app(s1.apps, app_info.name, app_info.exe_path)
            s2 == [s1 EXCEPT !.apps = a.apps]
            u == upsert_text_entry_with_html(s2.entries, a.id, t, hash,
                     content.source_url, content.html, is_sensitive, s.now)
        IN  IF ~in.upsertOk
            THEN Finish([s2 EXCEPT !.ev.changed = emit_clipboard_changed(FALSE),
                                   !.ev.toast = 0],
                        "upsert_failed")
            ELSE Finish([s2 EXCEPT !.entries = u.entries,
                                   !.ev.changed = emit_clipboard_changed(TRUE),
                                   !.ev.toast = IF in.showToast THEN 1 ELSE 0],
                        "text_persisted")

\* std::fs::write (clipboard.rs:422) is File::create, then write_all: it
\* fails before the file exists ("none"), or with the file created and not
\* all of the data in it ("some"), or it succeeds ("all")
fs_write(dir, name, data, written) ==
    CASE written = "none" -> dir
      [] written = "some" -> dir \cup {[name |-> name, data |-> <<>>]}
      [] written = "all" -> dir \cup {[name |-> name, data |-> data]}

\* std::fs::remove_file(&image_path).ok() (clipboard.rs:432, 439): the file is
\* gone when the call succeeds; its error is dropped
remove_file(dir, name, ok) == IF ok THEN {f \in dir : f.name # name} ELSE dir

\* clipboard.rs:390-443
image_path(s, app_info, content, in) ==
    LET png_data == content.image.val
        hash == content_hash(png_data)
        g == DedupGate(s.LAST_CONTENT_HASH, hash)
        s1 == [s EXCEPT !.LAST_CONTENT_HASH = g.last, !.ev.fp = Some(hash)]
    IN  IF g.suppress THEN Finish(s1, "suppressed")
        ELSE IF in.panicAt = "persist"
        THEN Finish([s1 EXCEPT !.panicked = TRUE], "panicked")
        ELSE IF ~in.lookupOk THEN Finish(s1, "app_lookup_failed")
        ELSE
        LET a == get_or_create_app(s1.apps, app_info.name, app_info.exe_path)
            filename == image_filename(s.now, hash)
            s2 == [s1 EXCEPT !.apps = a.apps]
            u == upsert_image_entry(s2.entries, a.id, filename, hash,
                                    content.source_url, s.now)
            written == fs_write(s2.files, filename, png_data, in.written)
        IN  IF in.written # "all"
            THEN Finish([s2 EXCEPT !.files = written], "file_write_failed")
            ELSE IF ~in.upsertOk
            THEN Finish([s2 EXCEPT !.files = remove_file(written, filename, in.removeOk),
                                   !.ev.changed = emit_clipboard_changed(FALSE),
                                   !.ev.toast = 0],
                        "upsert_failed")
            ELSE Finish([s2 EXCEPT !.entries = u.entries,
                                   !.files = IF u.was_duplicate
                                             THEN remove_file(written, filename,
                                                              in.removeOk)
                                             ELSE written,
                                   !.ev.changed = emit_clipboard_changed(TRUE),
                                   !.ev.toast = IF in.showToast THEN 1 ELSE 0],
                        "image_persisted")

\* the call of dib_to_png is reached (clipboard.rs:622-654)
decoder_runs(clip, text) ==
    /\ image_wanted(text)
    /\ IsNone(read_png_format(clip.png))
    /\ IsNone(read_png_format(clip.image_png))
    /\ \/ IsSome(clip.dibv5) /\ clip.dibv5.val.size > 0
       \/ IsSome(clip.dib) /\ clip.dib.val.size > 0

\* clipboard.rs:313-444
process_content(s, app_info, in) ==
    LET opened == open_clipboard_with_retry(5, in.firstOk)
        raw == read_clipboard_content(s.clipboard, in.firstOk)
    IN  IF in.panicAt = "extract" /\ opened /\ decoder_runs(s.clipboard, raw.text)
        THEN Finish([s EXCEPT !.clipboardOpen = TRUE, !.panicked = TRUE,
                              !.ev.read = TRUE], "panicked")
        ELSE
        LET content == reconcile_source_url(raw)
            s1 == [s EXCEPT !.clipboardOpen = IF opened THEN FALSE ELSE @,
                            !.ev.read = opened]
        IN  IF IsSome(content.text) /\ ~IsBlank(content.text.val)
            THEN text_path(s1, app_info, content, in)
            ELSE IF IsSome(content.image)
            THEN image_path(s1, app_info, content, in)
            ELSE Finish(s1, "no_content")

\* clipboard.rs:290-311
on_clipboard_change(s, in) ==
    LET sw == swap(s.IGNORE_NEXT, FALSE)
        s1 == [s EXCEPT !.IGNORE_NEXT = sw.new]
    IN  IF sw.old THEN Finish(s1, "ignored")
        ELSE
        LET tk == take_pending(s1.PENDING_APP_INFO, s1.poisoned)
            app_info == IF IsSome(tk.val) THEN tk.val ELSE in.fg
            s2 == [s1 EXCEPT !.PENDING_APP_INFO = tk.slot,
                             !.ev.ctx = app_info,
                             !.ev.source = IF IsSome(tk.val) THEN "pending"
                                           ELSE "foreground"]
        IN  IF IsNone(app_info) THEN Finish(s2, "no_app")
            ELSE IF is_self_origin(app_info.val) THEN Finish(s2, "self")
            ELSE process_content(s2, app_info.val, in)

(***************************************************************************)
(* What other applications put on the clipboard.                           *)
(***************************************************************************)
TextClipboard(units) == [EmptyClipboard EXCEPT !.unicode = Some(units)]

ClipSamples ==
    { TextClipboard(<<"a", NUL>>),
      TextClipboard(<<"b", NUL>>),
      [EmptyClipboard EXCEPT !.unicode = Some(<<" ", NUL>>), !.dib = Some(DibGood)],
      [EmptyClipboard EXCEPT !.png = Some(PngA)] }

OpenOutcomes == {0, 1, 5}

\* What can go wrong while one settled event is handled.  The first failure
\* ends the handler, so one failure per event covers every run of it.
Failures ==
    {"none", "open_failed", "panic_extract", "panic_persist", "lookup_failed",
     "write_failed", "write_cut_short", "upsert_failed", "remove_failed"}

TimerInput(fg, failure, showToast) ==
    [fg |-> fg,
     firstOk |-> IF failure = "open_failed" THEN 0 ELSE 1,
     panicAt |-> CASE failure = "panic_extract" -> "extract"
                   [] failure = "panic_persist" -> "persist"
                   [] OTHER -> "none",
     lookupOk |-> failure # "lookup_failed",
     written |-> CASE failure = "write_failed" -> "none"
                   [] failure = "write_cut_short" -> "some"
                   [] OTHER -> "all",
     removeOk |-> failure # "remove_failed",
     upsertOk |-> failure # "upsert_failed",
     showToast |-> showToast]

\* get_foreground_app is called at settle only when the slot is empty
\* (clipboard.rs:301-307); fg is what that call returns
TimerInputs(slot) ==
    {TimerInput(fg, failure, showToast) :
        fg \in IF IsSome(slot) THEN {None} ELSE Foregrounds,
        failure \in Failures, showToast \in BOOLEAN}

(***************************************************************************)
(* Init: the process after start_monitor.  The database file outlives the  *)
(* process: it holds one text entry that an earlier session stored for an  *)
(* application that is not running now.                                    *)
(***************************************************************************)
(***************************************************************************)
(* commands.rs:12-45 and window_tracker.rs:5-45.  A cache is its order     *)
(* queue and the keys of its map; no claim reads the cached values.        *)
(***************************************************************************)
IMAGE_CACHE_MAX == 50
MAX_ICON_CACHE_SIZE == 200

\* ImageLruCache::new, LruIconCache::new
EmptyCache == [order |-> <<>>, map |-> {}]

\* self.order.retain(|k| k != key)
retain(order, key) == SelectSeq(order, LAMBDA k : k # key)

\* ImageLruCache::get and LruIconCache::get
cache_get(c, key) ==
    IF key \in c.map
    THEN [c EXCEPT !.order = Append(retain(c.order, key), key)]
    ELSE c

\* a full cache that gives up no entry
keep_all(c) == c

\* if let Some(oldest) = self.order.pop_front() { self.map.remove(&oldest); }
evict_oldest(c) ==
    IF c.order = <<>> THEN c
    ELSE [order |-> Tail(c.order), map |-> c.map \ {Head(c.order)}]

push(c, key) == [order |-> Append(c.order, key), map |-> c.map \cup {key}]

\* ImageLruCache::insert
image_insert(c, key) ==
    push(IF Cardinality(c.map) >= IMAGE_CACHE_MAX THEN evict_oldest(c) ELSE c, key)

\* ImageLruCache::remove
image_remove(c, key) == [order |-> retain(c.order, key), map |-> c.map \ {key}]

\* LruIconCache::insert
icon_insert(c, key) ==
    IF key \in c.map
    THEN [c EXCEPT !.order = Append(retain(c.order, key), key)]
    ELSE push(IF Len(c.order) >= MAX_ICON_CACHE_SIZE THEN evict_oldest(c) ELSE c,
              key)

NoCalls == [next |-> 1, ops |-> 0, recent |-> <<>>,
            last |-> [op |-> "none", key |-> 0]]

SideInit ==
    /\ poisoned = {}
    /\ IMAGE_B64_CACHE = EmptyCache
    /\ ICON_CACHE = EmptyCache
    /\ cacheTrace = NoCalls

StoredApp == [name |-> "B", exe_path |-> "B.exe"]

StoredEntry ==
    [app_id |-> 1, content_type |-> "text", text_content |-> Some(<<"b">>),
     image_path |-> None, content_hash |-> content_hash(as_bytes(<<"b">>)),
     source_url |-> None, html_content |-> None, is_sensitive |-> FALSE,
     created_at |-> 0]

\* the state after start-up, but for the stored entries
InitMonitor ==
    /\ armed = FALSE
    /\ remaining = 0
    /\ queue = <<>>
    /\ loopRunning = TRUE
    /\ PENDING_APP_INFO = None
    /\ IGNORE_NEXT = FALSE
    /\ LAST_CONTENT_HASH = <<>>
    /\ clipboard = EmptyClipboard
    /\ clipboardOpen = FALSE
    /\ apps = <<StoredApp>>
    /\ files = {}
    /\ cmd = [pc |-> "idle", id |-> 0]
    /\ ev = Ev0
    /\ trail = <<>>
    /\ lastCapture = None
    /\ burst = {}
    /\ posted = 0
    /\ bursts = 0
    /\ settled = 0
    /\ gateLog = <<>>
    /\ result = EmptyContent
    /\ probe = NoProbe
    /\ SideInit

Init == InitMonitor /\ entries = <<StoredEntry>>

dbVars == <<apps, entries, files>>
timerVars == <<armed, remaining>>
historyVars == <<trail, lastCapture, burst, bursts, settled>>

\* a step that dispatches no WM_TIMER observes nothing
NoEvent == ev' = Ev0
sideVars == <<poisoned, IMAGE_B64_CACHE, ICON_CACHE, cacheTrace>>

otherSpecVars == <<gateLog, result, probe, sideVars>>

\* The OS posts WM_CLIPBOARDUPDATE to the listener window
PostSignal(origin) ==
    /\ posted < MaxSignals
    /\ Len(queue) < MaxQueue
    /\ queue' = Append(queue, origin)
    /\ posted' = posted + 1

\* Another application replaces the clipboard contents
ExternalCopy ==
    \E c \in ClipSamples :
        /\ PostSignal("ext")
        /\ clipboard' = [c EXCEPT !.owner = "ext"]
        /\ NoEvent
        /\ UNCHANGED <<timerVars, loopRunning, PENDING_APP_INFO, IGNORE_NEXT,
                       LAST_CONTENT_HASH, clipboardOpen, dbVars, cmd,
                       historyVars, otherSpecVars>>

\* The application that owns the clipboard changes it again (a further format,
\* the same contents): one more WM_CLIPBOARDUPDATE
Resignal ==
    /\ clipboard.owner = "ext"
    /\ PostSignal("ext")
    /\ NoEvent
    /\ UNCHANGED <<timerVars, loopRunning, PENDING_APP_INFO, IGNORE_NEXT,
                   LAST_CONTENT_HASH, clipboard, clipboardOpen, dbVars, cmd,
                   historyVars, otherSpecVars>>

\* wnd_proc, WM_CLIPBOARDUPDATE: clipboard.rs:223-232
WmClipboardUpdate ==
    /\ loopRunning
    /\ queue # <<>>
    /\ \E fg \in Foregrounds :
        LET t == SetTimer([armed |-> armed, remaining |-> remaining])
        IN  /\ PENDING_APP_INFO' =
                   IF IsSome(fg) THEN store_pending(PENDING_APP_INFO, fg.val, poisoned)
                   ELSE PENDING_APP_INFO
            /\ armed' = t.armed
            /\ remaining' = t.remaining
            /\ lastCapture' = fg
    /\ queue' = Tail(queue)
    /\ burst' = burst \cup {Head(queue)}
    /\ bursts' = IF armed THEN bursts ELSE bursts + 1
    /\ NoEvent
    /\ UNCHANGED <<loopRunning, IGNORE_NEXT, LAST_CONTENT_HASH, clipboard,
                   clipboardOpen, dbVars, cmd, trail, settled, posted,
                   otherSpecVars>>

\* Time passes while the timer is set
Tick ==
    /\ armed
    /\ remaining > 0
    /\ remaining' = IF remaining > TickMs THEN remaining - TickMs ELSE 0
    /\ NoEvent
    /\ UNCHANGED <<armed, queue, loopRunning, PENDING_APP_INFO, IGNORE_NEXT,
                   LAST_CONTENT_HASH, clipboard, clipboardOpen, dbVars, cmd,
                   historyVars, posted, otherSpecVars>>

MonitorState ==
    [IGNORE_NEXT |-> IGNORE_NEXT, PENDING_APP_INFO |-> PENDING_APP_INFO,
     LAST_CONTENT_HASH |-> LAST_CONTENT_HASH, clipboard |-> clipboard,
     clipboardOpen |-> clipboardOpen, apps |-> apps, entries |-> entries,
     files |-> files, now |-> settled + 1, panicked |-> FALSE,
     poisoned |-> poisoned, ev |-> Ev0]

\* wnd_proc, WM_TIMER of the debounce timer: clipboard.rs:233-239.  GetMessageW
\* (clipboard.rs:283) hands out WM_TIMER only when no posted message waits.
WmTimer ==
    /\ loopRunning
    /\ armed
    /\ remaining = 0
    /\ queue = <<>>
    /\ \E in \in TimerInputs(take_pending(PENDING_APP_INFO, poisoned).val) :
        LET t == KillTimer([armed |-> armed, remaining |-> remaining])
            r == on_clipboard_change(MonitorState, in)
        IN  /\ armed' = t.armed
            /\ remaining' = t.remaining
            /\ loopRunning' = catch_unwind(r.panicked)
            /\ IGNORE_NEXT' = r.IGNORE_NEXT
            /\ PENDING_APP_INFO' = r.PENDING_APP_INFO
            /\ LAST_CONTENT_HASH' = r.LAST_CONTENT_HASH
            /\ clipboardOpen' = r.clipboardOpen
            /\ apps' = r.apps
            /\ entries' = r.entries
            /\ files' = r.files
            /\ ev' = r.ev
            /\ trail' = Append(trail, outcome_class(r.ev.outcome))
    /\ settled' = settled + 1
    /\ burst' = {}
    /\ lastCapture' = None
    /\ UNCHANGED <<queue, clipboard, cmd, bursts, posted, otherSpecVars>>

(***************************************************************************)
(* copy_entry_to_clipboard, commands.rs:132-161.  The command runs on      *)
(* another thread than the monitor: the store of IGNORE_NEXT and the write *)
(* to the clipboard are two steps the monitor can come between.            *)
(***************************************************************************)
\* What dib_to_png makes of the 32-bit DIB that write_image_to_clipboard
\* (clipboard.rs:844-904) builds from a stored PNG file: the same bytes when
\* the file came out of dib_to_png, the decoder's own encoding otherwise.
png_via_dib(data) == IF data = PngA THEN PngA_reencoded ELSE data

WriteOutcomes == {"ok", "busy", "failed"}

\* commands.rs:137: IGNORE_NEXT.store(true) before the match that writes
flag_before_write(ignore_next) == TRUE

\* commands.rs:132-137
CopyBegin ==
    /\ cmd.pc = "idle"
    /\ \E id \in 1..Len(entries) :
        cmd' = [pc |-> "flagged", id |-> id]
    /\ IGNORE_NEXT' = flag_before_write(IGNORE_NEXT)
    /\ NoEvent
    /\ UNCHANGED <<timerVars, queue, loopRunning, PENDING_APP_INFO,
                   LAST_CONTENT_HASH, clipboard, clipboardOpen, dbVars,
                   historyVars, posted, otherSpecVars>>

\* clipboard.rs:809-841 and 844-904: the clipboard an own write leaves
own_clipboard(entry, outcome) ==
    IF outcome = "failed" THEN [EmptyClipboard EXCEPT !.owner = "own"]
    ELSE IF entry.content_type = "text"
    THEN [EmptyClipboard EXCEPT !.unicode = Some(Append(entry.text_content.val, NUL)),
                                !.owner = "own"]
    ELSE LET f == CHOOSE f \in files : f.name = entry.image_path.val
         IN  [EmptyClipboard EXCEPT
                 !.dib = Some([size |-> 44, decoded |-> Some(png_via_dib(f.data))]),
                 !.owner = "own"]

\* commands.rs:139-160; ev.ret is what the command returns
CopyWrite ==
    /\ cmd.pc = "flagged"
    /\ LET entry == entries[cmd.id]
           missing == \/ entry.content_type = "text" /\ IsNone(entry.text_content)
                      \/ entry.content_type = "image" /\ IsNone(entry.image_path)
           unknown == entry.content_type \notin {"text", "image"}
           no_file == /\ entry.content_type = "image"
                      /\ IsSome(entry.image_path)
                      /\ ~\E f \in files : f.name = entry.image_path.val
       IN  \E outcome \in WriteOutcomes :
            IF missing
            THEN /\ ev' = [Ev0 EXCEPT !.ret = "Err"]
                 /\ UNCHANGED <<IGNORE_NEXT, clipboard, queue, posted>>
            ELSE IF unknown \/ no_file \/ outcome = "busy"
            THEN /\ IGNORE_NEXT' = FALSE
                 /\ ev' = [Ev0 EXCEPT !.ret = "Err"]
                 /\ UNCHANGED <<clipboard, queue, posted>>
            ELSE /\ PostSignal("own")
                 /\ clipboard' = own_clipboard(entry, outcome)
                 /\ IGNORE_NEXT' = IF outcome = "ok" THEN IGNORE_NEXT ELSE FALSE
                 /\ ev' = [Ev0 EXCEPT !.ret = IF outcome = "ok" THEN "Ok" ELSE "Err"]
    /\ cmd' = [pc |-> "idle", id |-> 0]
    /\ UNCHANGED <<timerVars, loopRunning, PENDING_APP_INFO, LAST_CONTENT_HASH,
                   clipboardOpen, dbVars, historyVars, otherSpecVars>>

Next ==
    \/ ExternalCopy
    \/ Resignal
    \/ WmClipboardUpdate
    \/ Tick
    \/ WmTimer
    \/ CopyBegin
    \/ CopyWrite

Spec == Init /\ [][Next]_vars

\* The message loop dispatches every message it is handed, and time passes
FairSpec ==
    /\ Spec
    /\ WF_vars(WmClipboardUpdate)
    /\ WF_vars(Tick)
    /\ WF_vars(WmTimer)

(***************************************************************************)
(* SpecCopy: the monitor and copy_entry_to_clipboard over a table opened   *)
(* from disk.  The schema (database.rs:123-131) lets text_content and      *)
(* image_path be NULL and content_type be any text, and the command reads  *)
(* them as Option (commands.rs:141, 147) and matches any other type (154). *)
(***************************************************************************)
StoredOnDisk ==
    {StoredEntry,
     [StoredEntry EXCEPT !.text_content = None],
     [StoredEntry EXCEPT !.content_type = "image", !.text_content = None],
     [StoredEntry EXCEPT !.content_type = "image", !.text_content = None,
                         !.image_path = Some(image_filename(0, content_hash(PngA)))],
     [StoredEntry EXCEPT !.content_type = "file"]}

InitCopy == InitMonitor /\ entries \in {<<e>> : e \in StoredOnDisk}

SpecCopy == InitCopy /\ [][Next]_vars

(***************************************************************************)
(* SpecUpsert: upsert_text_entry_with_html and upsert_image_entry called   *)
(* one after the other on a table that starts empty.  settled counts the   *)
(* calls and stands for the clock; trail lists the triples upserted.       *)
(***************************************************************************)
MaxUpserts == 3

UpsertTexts == {<<"a">>, <<"b">>}
UpsertUrls == {None, Some(HTTPS \o <<"x">>)}
UpsertHtml == {None, Some(<<"a">>)}

InitUpsert == InitMonitor /\ entries = <<>>

UpsertOnly ==
    /\ settled < MaxUpserts
    /\ settled' = settled + 1
    /\ NoEvent
    /\ UNCHANGED <<timerVars, queue, loopRunning, PENDING_APP_INFO, IGNORE_NEXT,
                   LAST_CONTENT_HASH, clipboard, clipboardOpen, apps, files, cmd,
                   lastCapture, burst, bursts, posted, otherSpecVars>>

UpsertText ==
    /\ \E app_id \in 1..2, text \in UpsertTexts, source_url \in UpsertUrls,
          html \in UpsertHtml :
         LET hash == content_hash(as_bytes(text))
         IN  /\ entries' = upsert_text_entry_with_html(entries, app_id, text, hash,
                               source_url, html, detect_sensitive(text, "en"),
                               settled + 1).entries
             /\ trail' = Append(trail, <<app_id, "text", hash>>)
    /\ UpsertOnly

UpsertImage ==
    /\ \E app_id \in 1..2, png \in {PngA}, source_url \in UpsertUrls :
         LET hash == content_hash(png)
         IN  /\ entries' = upsert_image_entry(entries, app_id,
                               image_filename(settled + 1, hash), hash,
                               source_url, settled + 1).entries
             /\ trail' = Append(trail, <<app_id, "image", hash>>)
    /\ UpsertOnly

SpecUpsert == InitUpsert /\ [][UpsertText \/ UpsertImage]_vars

(***************************************************************************)
(* apply_retention_policy, database.rs:595-643, and its caller             *)
(* start_midnight_timer, lib.rs:213-239.  A row is [id, app_id,            *)
(* content_type, image_path, is_favorite, created_at]; created_at and now  *)
(* count days.  The table is a sequence in rowid order.                    *)
(***************************************************************************)
\* a WHERE clause that lets every row through
any_row(r) == TRUE

\* WHERE is_favorite = 0
non_favorite(r) == ~r.is_favorite

\* ORDER BY created_at ASC LIMIT n over rows[lo..hi], given in rowid order:
\* the n rows of least created_at, rows of equal created_at in rowid order,
\* which is the order of idx_entries_created (database.rs:132).  The two
\* halves are ordered on their own and merged.
RECURSIVE limit_oldest(_, _, _, _)
limit_oldest(rows, lo, hi, n) ==
    IF n <= 0 \/ lo > hi THEN <<>>
    ELSE IF lo = hi THEN <<rows[lo]>>
    ELSE LET mid == (lo + hi) \div 2
             left == limit_oldest(rows, lo, mid, n)
             right == limit_oldest(rows, mid + 1, hi, n)
             rank_left(i) ==
                 i + Cardinality({j \in 1..Len(right) :
                                     right[j].created_at < left[i].created_at})
             rank_right(j) ==
                 j + Cardinality({i \in 1..Len(left) :
                                     left[i].created_at <= right[j].created_at})
             m == Len(left) + Len(right)
             merged == [k \in 1..m |->
                           IF \E i \in 1..Len(left) : rank_left(i) = k
                           THEN left[CHOOSE i \in 1..Len(left) : rank_left(i) = k]
                           ELSE right[CHOOSE j \in 1..Len(right) : rank_right(j) = k]]
         IN  SubSeq(merged, 1, IF m < n THEN m ELSE n)

\* database.rs:595-643: the table and the apps it leaves, and the paths it
\* returns
apply_retention_policy(tbl, app_tbl, policy, now) ==
    LET with_image(rows) == SelectSeq(rows, LAMBDA r : IsSome(r.image_path))
        paths_of(rows) == {rows[i].image_path.val : i \in 1..Len(rows)}
        candidates == SelectSeq(tbl, non_favorite)
        cleanup(rows) ==
            SelectSeq(app_tbl, LAMBDA a : \E i \in 1..Len(rows) : rows[i].app_id = a.id)
        done(rows, paths) ==
            [entries |-> rows, apps |-> cleanup(rows), paths |-> paths]
    IN  CASE policy \in {"1d", "3d", "7d", "30d"} ->
               LET days == CASE policy = "1d" -> 1 [] policy = "3d" -> 3
                             [] policy = "7d" -> 7 [] policy = "30d" -> 30
                   old(r) == non_favorite(r) /\ r.created_at < now - days
               IN  done(SelectSeq(tbl, LAMBDA r : ~old(r)),
                        paths_of(with_image(SelectSeq(tbl, old))))
          [] policy \in {"500", "1000", "5000"} ->
               LET max == CASE policy = "500" -> 500 [] policy = "1000" -> 1000
                            [] policy = "5000" -> 5000
                   total == Len(candidates)
                   to_delete == total - max
                   gone == limit_oldest(candidates, 1, total, to_delete)
                   ids == {gone[i].id : i \in 1..Len(gone)}
               IN  IF total <= max
                   THEN [entries |-> tbl, apps |-> app_tbl, paths |-> {}]
                   ELSE done(SelectSeq(tbl, LAMBDA r : ~(non_favorite(r) /\ r.id \in ids)),
                             paths_of(limit_oldest(with_image(candidates), 1,
                                                   Len(with_image(candidates)),
                                                   to_delete)))
          [] policy = "midnight" ->
               done(SelectSeq(tbl, LAMBDA r : ~non_favorite(r)),
                    paths_of(with_image(candidates)))
          [] OTHER -> done(tbl, {})

(***************************************************************************)
(* SpecRetention: one pass of the midnight timer over a stored table: up   *)
(* to two rows of any kind, followed by none, 499 or 500 newer text rows   *)
(* that are not favorites.                                                 *)
(***************************************************************************)
RetentionRow(kind, fav, at) ==
    [app_id |-> 2, content_type |-> kind, is_favorite |-> fav, created_at |-> at]

HeadRows ==
    {RetentionRow(kind, fav, at) :
        kind \in {"text", "image"}, fav \in BOOLEAN, at \in {1, 2}}

Heads == {<<>>} \cup {<<r>> : r \in HeadRows} \cup (HeadRows \X HeadRows)

\* rows numbered in rowid order; an image row has a file named after its id
Numbered(rows) ==
    [i \in 1..Len(rows) |->
        [id |-> i, app_id |-> rows[i].app_id,
         content_type |-> rows[i].content_type,
         image_path |-> IF rows[i].content_type = "image" THEN Some(i) ELSE None,
         is_favorite |-> rows[i].is_favorite,
         created_at |-> rows[i].created_at]]

TextRows(n) ==
    [i \in 1..n |-> [app_id |-> 1, content_type |-> "text",
                     is_favorite |-> FALSE, created_at |-> 3]]

StoredTables == {Numbered(h \o TextRows(n)) : h \in Heads, n \in {0, 499, 500}}

StoredApps == <<[id |-> 1, name |-> "B"], [id |-> 2, name |-> "A"]>>

FilesOf(tbl) ==
    {[name |-> tbl[i].image_path.val, data |-> PngA] :
        i \in {j \in 1..Len(tbl) : IsSome(tbl[j].image_path)}}

Policies == {"none", "1d", "500", "midnight", "keep"}

InitRetention ==
    /\ entries \in StoredTables
    /\ files = FilesOf(entries)
    /\ apps = StoredApps
    /\ \E policy \in Policies, now \in {3, 4} :
         probe = [fn |-> "none",
                  in |-> Some([policy |-> policy, now |-> now, tbl |-> entries]),
                  out |-> None]
    /\ clipboard = EmptyClipboard /\ result = EmptyContent
    /\ armed = FALSE /\ remaining = 0 /\ queue = <<>> /\ loopRunning = TRUE
    /\ PENDING_APP_INFO = None /\ IGNORE_NEXT = FALSE /\ LAST_CONTENT_HASH = <<>>
    /\ clipboardOpen = FALSE
    /\ cmd = [pc |-> "idle", id |-> 0] /\ ev = Ev0 /\ trail = <<>>
    /\ lastCapture = None /\ burst = {} /\ posted = 0 /\ bursts = 0
    /\ settled = 0 /\ gateLog = <<>>
    /\ SideInit

\* lib.rs:225-236
MidnightRetention ==
    /\ probe.fn = "none"
    /\ LET policy == probe.in.val.policy
           r == apply_retention_policy(entries, apps, policy, probe.in.val.now)
       IN  IF policy = "none"
           THEN /\ probe' = [probe EXCEPT !.fn = "start_midnight_timer"]
                /\ UNCHANGED <<entries, apps, files>>
           ELSE /\ probe' = [probe EXCEPT !.fn = "apply_retention_policy",
                                          !.out = Some(r.paths)]
                /\ entries' = r.entries
                /\ apps' = r.apps
                /\ files' = {f \in files : f.name \notin r.paths}
    /\ UNCHANGED <<timerVars, queue, loopRunning, PENDING_APP_INFO, IGNORE_NEXT,
                   LAST_CONTENT_HASH, clipboard, clipboardOpen, cmd, ev,
                   historyVars, posted, gateLog, result, sideVars>>

SpecRetention == InitRetention /\ [][MidnightRetention]_vars

(***************************************************************************)
(* SpecGate: the dedup gate (clipboard.rs:338-345, 391-398) on a sequence  *)
(* of contents.                                                            *)
(***************************************************************************)
GateContents == {as_bytes(<<"a">>), as_bytes(<<"b">>), PngA}

GateObserve ==
    /\ Len(gateLog) < MaxObs
    /\ \E data \in GateContents :
        LET hash == content_hash(data)
            g == DedupGate(LAST_CONTENT_HASH, hash)
        IN  /\ LAST_CONTENT_HASH' = g.last
            /\ gateLog' = Append(gateLog, [data |-> data, fp |-> hash,
                                           suppress |-> g.suppress])
    /\ NoEvent
    /\ UNCHANGED <<timerVars, queue, loopRunning, PENDING_APP_INFO, IGNORE_NEXT,
                   clipboard, clipboardOpen, dbVars, cmd, historyVars, posted,
                   result, probe, sideVars>>

SpecGate == Init /\ [][GateObserve]_vars

(***************************************************************************)
(* SpecExtract: read_clipboard_content on every clipboard built from the   *)
(* payloads below.                                                         *)
(***************************************************************************)
UnicodePayloads ==
    {None, TooBig, Some(<<NUL>>), Some(<<" ", NUL>>), Some(<<"a", NUL, "b">>)}
AnsiPayloads ==
    {None, TooBig, Some(<<>>), Some(<<32, 0>>), Some(<<98, 0>>), Some(<<233, 0>>)}
PngPayloads == {None, Some(PngA), Some(NotPng), Some(PNG_MAGIC)}
DibPayloads == {None, Some(DibGood), Some(DibBad)}

AllClipboards ==
    [html : {None}, unicode : UnicodePayloads, ansi : AnsiPayloads,
     png : PngPayloads, image_png : {None, Some(PngB)},
     dibv5 : DibPayloads, dib : DibPayloads, owner : {"ext"}]

InitExtract ==
    /\ clipboard \in AllClipboards
    /\ result = EmptyContent
    /\ armed = FALSE /\ remaining = 0 /\ queue = <<>> /\ loopRunning = TRUE
    /\ PENDING_APP_INFO = None /\ IGNORE_NEXT = FALSE /\ LAST_CONTENT_HASH = <<>>
    /\ clipboardOpen = FALSE /\ apps = <<>> /\ entries = <<>> /\ files = {}
    /\ cmd = [pc |-> "idle", id |-> 0] /\ ev = Ev0 /\ trail = <<>>
    /\ lastCapture = None /\ burst = {} /\ posted = 0 /\ bursts = 0
    /\ settled = 0 /\ gateLog = <<>> /\ probe = NoProbe
    /\ SideInit

Extract ==
    /\ \E firstOk \in OpenOutcomes :
        /\ result' = read_clipboard_content(clipboard, firstOk)
        /\ ev' = [Ev0 EXCEPT !.outcome = "extracted",
                             !.read = open_clipboard_with_retry(5, firstOk)]
    /\ UNCHANGED <<timerVars, queue, loopRunning, PENDING_APP_INFO, IGNORE_NEXT,
                   LAST_CONTENT_HASH, clipboard, clipboardOpen, dbVars, cmd,
                   historyVars, posted, gateLog, probe, sideVars>>

SpecExtract == InitExtract /\ [][Extract]_vars

(***************************************************************************)
(* SpecSettle: one settled event, handled by on_clipboard_change, on every *)
(* clipboard of AllClipboards.  The debounce timer has run out after one   *)
(* raw signal of another application.                                      *)
(***************************************************************************)
InitSettle ==
    /\ clipboard \in AllClipboards
    /\ armed = TRUE /\ remaining = 0 /\ queue = <<>> /\ loopRunning = TRUE
    /\ PENDING_APP_INFO = Some(AppA) /\ IGNORE_NEXT = FALSE
    /\ LAST_CONTENT_HASH = <<>> /\ clipboardOpen = FALSE
    /\ apps = <<StoredApp>> /\ entries = <<StoredEntry>> /\ files = {}
    /\ cmd = [pc |-> "idle", id |-> 0] /\ ev = Ev0 /\ trail = <<>>
    /\ lastCapture = Some(AppA) /\ burst = {"ext"} /\ posted = 1
    /\ bursts = 1 /\ settled = 0 /\ gateLog = <<>> /\ result = EmptyContent
    /\ probe = NoProbe
    /\ SideInit

SpecSettle == InitSettle /\ [][WmTimer]_vars

(***************************************************************************)
(* SpecUrl: the source-URL reconciliation at the head of                   *)
(* on_clipboard_change (clipboard.rs:315-334) for every pair of a          *)
(* SourceURL header value and a clipboard text below.                      *)
(***************************************************************************)
FTP == <<"f", "t", "p", ":", "/", "/">>
HTTP_UPPER == <<"H", "T", "T", "P", ":", "/", "/">>

\* values of the SourceURL header, as read_clipboard_content stores them:
\* trimmed and not empty
HeaderUrls ==
    {HTTP \o <<"x">>, HTTPS \o <<"x">>, HTTP, FTP \o <<"x">>, HTTP_UPPER \o <<"x">>,
     <<"x">>, <<"h", "t", "t", "p">>}

HtmlPayloads ==
    {None} \cup {Some([SourceURL |-> Some(u), fragment |-> None]) : u \in HeaderUrls}
           \cup {Some([SourceURL |-> None, fragment |-> None])}

UrlTexts ==
    {<<>>, <<" ">>, <<"y">>,
     HTTP \o <<"y">>, HTTPS \o <<"y">>, HTTPS,
     <<" ">> \o HTTPS \o <<"y", " ">>,
     HTTPS \o <<"y", "\n">>,
     <<"\n">> \o HTTP \o <<"y">>,
     HTTP \o <<"y", "\n", "z">>,
     HTTPS \o <<"y", "\r", "\n", "z">>,
     HTTPS \o <<"y", " ", "z">>,
     FTP \o <<"y">>, HTTP_UPPER \o <<"y">>,
     <<"y", " ">> \o HTTP \o <<"z">>}

UrlClipboards ==
    {[EmptyClipboard EXCEPT !.html = h, !.unicode = u, !.owner = "ext"] :
        h \in HtmlPayloads,
        u \in {None} \cup {Some(Append(t, NUL)) : t \in UrlTexts}}

InitUrl ==
    /\ clipboard \in UrlClipboards
    /\ result = EmptyContent
    /\ armed = FALSE /\ remaining = 0 /\ queue = <<>> /\ loopRunning = TRUE
    /\ PENDING_APP_INFO = None /\ IGNORE_NEXT = FALSE /\ LAST_CONTENT_HASH = <<>>
    /\ clipboardOpen = FALSE /\ apps = <<>> /\ entries = <<>> /\ files = {}
    /\ cmd = [pc |-> "idle", id |-> 0] /\ ev = Ev0 /\ trail = <<>>
    /\ lastCapture = None /\ burst = {} /\ posted = 0 /\ bursts = 0
    /\ settled = 0 /\ gateLog = <<>> /\ probe = NoProbe
    /\ SideInit

\* clipboard.rs:315-334: the bundle is read and its source_url reconciled
Reconcile ==
    /\ ev = Ev0
    /\ result' = reconcile_source_url(read_clipboard_content(clipboard, 1))
    /\ ev' = [Ev0 EXCEPT !.outcome = "reconciled", !.read = TRUE]
    /\ UNCHANGED <<timerVars, queue, loopRunning, PENDING_APP_INFO, IGNORE_NEXT,
                   LAST_CONTENT_HASH, clipboard, clipboardOpen, dbVars, cmd,
                   historyVars, posted, gateLog, probe, sideVars>>

SpecUrl == InitUrl /\ [][Reconcile]_vars

(***************************************************************************)
(* Functions called on their own.  Init draws the argument, the one action *)
(* of the specification stores the result next to it.                      *)
(***************************************************************************)
InitProbe(inputs) ==
    /\ probe \in {[fn |-> "none", in |-> Some(x), out |-> None] : x \in inputs}
    /\ clipboard = EmptyClipboard
    /\ result = EmptyContent
    /\ armed = FALSE /\ remaining = 0 /\ queue = <<>> /\ loopRunning = TRUE
    /\ PENDING_APP_INFO = None /\ IGNORE_NEXT = FALSE /\ LAST_CONTENT_HASH = <<>>
    /\ clipboardOpen = FALSE /\ apps = <<>> /\ entries = <<>> /\ files = {}
    /\ cmd = [pc |-> "idle", id |-> 0] /\ ev = Ev0 /\ trail = <<>>
    /\ lastCapture = None /\ burst = {} /\ posted = 0 /\ bursts = 0
    /\ settled = 0 /\ gateLog = <<>>
    /\ SideInit

ProbeOnly ==
    UNCHANGED <<timerVars, queue, loopRunning, PENDING_APP_INFO, IGNORE_NEXT,
                LAST_CONTENT_HASH, clipboard, clipboardOpen, dbVars, cmd, ev,
                historyVars, posted, gateLog, result, sideVars>>

Called(fn, out) == probe' = [probe EXCEPT !.fn = fn, !.out = Some(out)]

(***************************************************************************)
(* SpecOpen: read_clipboard_content up to the first format it reads        *)
(* (clipboard.rs:470-486), for every attempt at which OpenClipboard can    *)
(* first succeed.                                                          *)
(***************************************************************************)
MaxFirstOk == 7
MaxCacheOps == 2       \* cache calls other than the insert of a new key
MaxExtraKeys == 2      \* new keys inserted beyond the capacity of a cache

OpenClipboards ==
    ClipSamples \cup {EmptyClipboard, TextClipboard(<<" ", NUL>>),
                      [EmptyClipboard EXCEPT !.ansi = Some(<<98, 0>>)],
                      [EmptyClipboard EXCEPT !.image_png = Some(PngB)]}

OpenInputs == [firstOk : 0..MaxFirstOk, clip : OpenClipboards]

Open ==
    /\ probe.fn = "none"
    /\ LET in == probe.in.val
       IN  Called("open", [loop |-> open_loop(5, in.firstOk, 0, 0),
                           bundle |-> read_clipboard_content(in.clip, in.firstOk)])
    /\ ProbeOnly

SpecOpen == InitProbe(OpenInputs) /\ [][Open]_vars

(***************************************************************************)
(* dib_to_png, clipboard.rs:660-806.  A DIB is its length and the header   *)
(* fields the decoder parses out of it; the values of the pixel and        *)
(* palette bytes decide no branch but the palette index, which is taken to *)
(* range over every byte value.  The result records, next to what the      *)
(* function returns, whether the raster was allocated, the rows decoded    *)
(* and the index ranges of the buffer that were read.                      *)
(***************************************************************************)
I32_MIN == (-2147483647) - 1
I32_MAX == 2147483647

\* i32::wrapping_abs: the most negative value stays as it is
wrapping_abs(h) == IF h < 0 /\ h # I32_MIN THEN -h ELSE h

\* i32::unsigned_abs.  2^31, the value for I32_MIN, is above what the model's
\* integers hold and stands as I32_MAX: it is only compared with 4096.
unsigned_abs(h) == IF h >= 0 THEN h ELSE IF h = I32_MIN THEN I32_MAX ELSE -h

\* a row check that lets every row through
row_always_fits(row_start, need, avail) == TRUE

\* clipboard.rs:715, 734, 751, 776: if row_start + .. > pixels_raw.len() { break }
row_fits(row_start, need, avail) == row_start + need <= avail

Rejected(reads, allocated) ==
    [png |-> FALSE, allocated |-> allocated, rows |-> {}, reads |-> reads,
     pixel_offset |-> 0, row_bytes |-> 0, need |-> 0]

\* a stride without padding
unpadded(bit_count, w) == w * (bit_count \div 8)

\* the stride of a row in the buffer
row_bytes_of(bit_count, w) ==
    CASE bit_count = 32 -> w * 4
      [] bit_count = 24 -> ((w * 3 + 3) \div 4) * 4
      [] bit_count = 16 -> ((w * 2 + 3) \div 4) * 4
      [] bit_count = 8 -> ((w + 3) \div 4) * 4

\* the bytes of a row the row check asks for
row_need(bit_count, w) ==
    CASE bit_count = 32 -> w * 4
      [] bit_count = 24 -> w * 3
      [] bit_count = 16 -> w * 2
      [] bit_count = 8 -> w

\* for y in 0..abs_height { .. }, from row y on: the rows put into the raster
RECURSIVE decode_rows(_, _, _, _, _, _)
decode_rows(y, abs_height, top_down, row_bytes, need, avail) ==
    IF y >= abs_height THEN {}
    ELSE LET src_y == IF top_down THEN y ELSE abs_height - 1 - y
             row_start == src_y * row_bytes
         IN  IF ~row_fits(row_start, need, avail) THEN {}
             ELSE {[y |-> y, src_y |-> src_y, row_start |-> row_start]}
                  \cup decode_rows(y + 1, abs_height, top_down, row_bytes, need, avail)

HeaderReads == {<<0, 3>>, <<4, 7>>, <<8, 11>>, <<14, 15>>, <<16, 19>>}

dib_to_png(dib) ==
    IF dib.len < 40 THEN Rejected({}, FALSE)
    ELSE IF \/ dib.width <= 0 \/ dib.width > 4096
            \/ dib.height = 0 \/ unsigned_abs(dib.height) > 4096
    THEN Rejected(HeaderReads, FALSE)
    ELSE IF dib.width * unsigned_abs(dib.height) > 16000000
    THEN Rejected(HeaderReads, FALSE)
    ELSE IF dib.compression # 0 /\ dib.compression # 3
    THEN Rejected(HeaderReads, FALSE)
    ELSE
    LET abs_height == unsigned_abs(dib.height)
        w == dib.width
        top_down == dib.height < 0
        palette_count == IF dib.colors_used = 0 THEN 256 ELSE dib.colors_used
        offset8 == IF dib.bit_count = 8
                   THEN dib.header_size + palette_count * 4
                   ELSE dib.header_size
        pixel_offset == IF dib.compression = 3 /\ dib.header_size < 52
                        THEN dib.header_size + 12
                        ELSE offset8
        reads0 == HeaderReads \cup (IF dib.bit_count = 8 THEN {<<32, 35>>} ELSE {})
    IN  IF pixel_offset >= dib.len THEN Rejected(reads0, FALSE)
        ELSE IF dib.bit_count \notin {32, 24, 16, 8} THEN Rejected(reads0, TRUE)
        ELSE IF dib.bit_count = 8 /\ dib.header_size + palette_count * 4 > dib.len
        THEN Rejected(reads0, TRUE)
        ELSE
        LET row_bytes == row_bytes_of(dib.bit_count, w)
            need == row_need(dib.bit_count, w)
            rows == decode_rows(0, abs_height, top_down, row_bytes, need,
                                dib.len - pixel_offset)
            row_reads == {<<pixel_offset + r.row_start,
                            pixel_offset + r.row_start + need - 1>> : r \in rows}
            last_index == (IF palette_count < 256 THEN palette_count ELSE 256) - 1
            palette_reads == IF dib.bit_count = 8 /\ rows # {}
                             THEN {<<dib.header_size,
                                     dib.header_size + last_index * 4 + 2>>}
                             ELSE {}
        IN  [png |-> TRUE, allocated |-> TRUE, rows |-> rows,
             reads |-> reads0 \cup row_reads \cup palette_reads,
             pixel_offset |-> pixel_offset, row_bytes |-> row_bytes, need |-> need]

(***************************************************************************)
(* SpecDib: dib_to_png on the headers and buffer lengths below.            *)
(***************************************************************************)
DibDims ==
    {[width |-> w, height |-> h] : w \in 1..3, h \in {-3, -2, -1, 1, 2, 3}}
    \cup {[width |-> 4096, height |-> 4096], [width |-> 4001, height |-> 4000],
          [width |-> 4096, height |-> 1], [width |-> 4096, height |-> -1],
          [width |-> 5000, height |-> 1], [width |-> 4097, height |-> 1],
          [width |-> 0, height |-> 1], [width |-> -1, height |-> 1],
          [width |-> I32_MIN, height |-> 1], [width |-> 1, height |-> 0],
          [width |-> 1, height |-> 4097], [width |-> 1, height |-> -4097],
          [width |-> 1, height |-> I32_MIN]}

DibLens == {1, 39, 40, 44, 48, 52, 56, 60, 64, 76, 1068, 1072, 1076}

DibInputs ==
    {[len |-> n, header_size |-> hs, width |-> d.width, height |-> d.height,
      bit_count |-> bc, compression |-> c, colors_used |-> cu] :
        n \in DibLens, hs \in {0, 40, 52, 2000}, d \in DibDims,
        bc \in {32, 24, 16, 8, 1}, c \in {0, 1, 3}, cu \in {0, 2, 1000000}}

Decode ==
    /\ probe.fn = "none"
    /\ Called("dib_to_png", dib_to_png(probe.in.val))
    /\ ProbeOnly

SpecDib == InitProbe(DibInputs) /\ [][Decode]_vars

(***************************************************************************)
(* The pixels of dib_to_png.  body holds the bytes of the buffer from      *)
(* header_size on (palette or masks, then the rows), so                    *)
(* dib.len = dib.header_size + Len(body).  overflow_checks tells whether   *)
(* the build traps integer overflow (a debug profile) or wraps (a release  *)
(* profile); the repository fixes neither.                                 *)
(***************************************************************************)
\* clipboard.rs:759-761: (.. & 0x1F) as u8 * 255 / 31: the cast is applied
\* first, so the product is one of two u8 and wraps at 256 when not trapped
channel_5_to_8(v) == ((v * 255) % 256) \div 31

\* an alpha byte copied as it is
alpha_kept(a) == a

\* clipboard.rs:724: let alpha = if a == 0 { 255 } else { a }
alpha_of(a) == IF a = 0 THEN 255 ELSE a

\* clipboard.rs:756-761: the 16-bit pixel at pixels_raw[off], pixels_raw[off + 1]
\* (little-endian) and its three 5-bit channels: red, green, blue
channels_555(pixels_raw, off) ==
    LET pixel16 == pixels_raw[off + 1] + 256 * pixels_raw[off + 2]
    IN  <<(pixel16 \div 1024) % 32, (pixel16 \div 32) % 32, pixel16 % 32>>

\* a pixel of RgbaImage::new that no put_pixel has touched
Blank == <<0, 0, 0, 0>>

\* the Rgba put at one pixel of a decoded row, whose bytes start at
\* pixels_raw[off]; sequences count from 1, slices from 0
rgba_at(bit_count, pixels_raw, off, palette, palette_count) ==
    CASE bit_count = 32 ->
           <<pixels_raw[off + 3], pixels_raw[off + 2], pixels_raw[off + 1],
             alpha_of(pixels_raw[off + 4])>>
      [] bit_count = 24 ->
           <<pixels_raw[off + 3], pixels_raw[off + 2], pixels_raw[off + 1], 255>>
      [] bit_count = 16 ->
           LET c == channels_555(pixels_raw, off)
           IN  <<channel_5_to_8(c[1]), channel_5_to_8(c[2]),
                 channel_5_to_8(c[3]), 255>>
      [] bit_count = 8 ->
           LET idx == pixels_raw[off + 1]
           IN  IF idx < palette_count
               THEN <<palette[idx * 4 + 3], palette[idx * 4 + 2],
                      palette[idx * 4 + 1], 255>>
               ELSE Blank

\* one of the three products of a 16-bit pixel leaves the range of u8
pixel_overflows(pixels_raw, off) ==
    \E i \in 1..3 : channels_555(pixels_raw, off)[i] * 255 > 255

\* dib_to_png with the pixels it writes: rejected, panicked, or the raster
\* img[<<y, x>>] that is encoded as PNG
dib_pixels(dib, body, overflow_checks) ==
    LET out == dib_to_png(dib)
    IN  IF ~out.png THEN [outcome |-> "none", rows |-> {}, img |-> <<>>]
        ELSE
        LET w == dib.width
            abs_height == unsigned_abs(dib.height)
            palette_count == IF dib.colors_used = 0 THEN 256 ELSE dib.colors_used
            pixels_raw == SubSeq(body, out.pixel_offset - dib.header_size + 1,
                                 Len(body))
            offsets == {r.row_start + x * row_need(dib.bit_count, 1) :
                            r \in out.rows, x \in 0..(w - 1)}
            put(y, x) ==
                IF \E r \in out.rows : r.y = y
                THEN LET r == CHOOSE r \in out.rows : r.y = y
                     IN  rgba_at(dib.bit_count, pixels_raw,
                                 r.row_start + x * row_need(dib.bit_count, 1),
                                 body, palette_count)
                ELSE Blank
        IN  IF /\ dib.bit_count = 16 /\ overflow_checks
               /\ \E off \in offsets : pixel_overflows(pixels_raw, off)
            THEN [outcome |-> "panic", rows |-> {}, img |-> <<>>]
            ELSE [outcome |-> "png", rows |-> out.rows,
                  img |-> [p \in (0..(abs_height - 1)) \X (0..(w - 1)) |->
                              put(p[1], p[2])]]

(***************************************************************************)
(* SpecPixels: dib_to_png on small pictures stored as DIBs of 32, 24, 16   *)
(* and 8 bits, top-down and bottom-up, whole or cut short at the end.      *)
(***************************************************************************)
RECURSIVE Joined(_)
Joined(ss) == IF ss = <<>> THEN <<>> ELSE Head(ss) \o Joined(Tail(ss))

Colours == {<<10, 20, 30, 0>>, <<200, 100, 50, 128>>, <<255, 255, 255, 255>>}
Colours555 == {<<0, 0, 0, 255>>, <<1, 0, 31, 255>>, <<31, 31, 31, 255>>}
AllLevels555 == {<<v, 31 - v, (v * 7) % 32, 255>> : v \in 0..31}
Palette == <<30, 20, 10, 0, 50, 100, 200, 0>>
PaletteColours == {<<10, 20, 30, 255>>, <<200, 100, 50, 255>>, Blank}
PicDims == {<<1, 1>>, <<1, 2>>, <<2, 1>>, <<2, 2>>}
Cuts == {0, 1, 5}

\* the pictures of w by h pixels over a set of colours, as img[<<y, x>>]
Pictures(colours, w, h) == [(0..(h - 1)) \X (0..(w - 1)) -> colours]

\* the bytes that store one colour
StoredPixel(bit_count, c) ==
    CASE bit_count = 32 -> <<c[3], c[2], c[1], c[4]>>
      [] bit_count = 24 -> <<c[3], c[2], c[1]>>
      [] bit_count = 16 -> LET p == c[1] * 1024 + c[2] * 32 + c[3]
                           IN  <<p % 256, p \div 256>>
      [] bit_count = 8 -> IF c = <<10, 20, 30, 255>> THEN <<0>>
                          ELSE IF c = <<200, 100, 50, 255>> THEN <<1>>
                          ELSE <<2>>

\* one row of a picture, padded to the stride
StoredRow(bit_count, pic, y, w) ==
    LET used == Joined([x \in 1..w |-> StoredPixel(bit_count, pic[<<y, x - 1>>])])
        stride == ((Len(used) + 3) \div 4) * 4
    IN  used \o [i \in 1..(stride - Len(used)) |-> 170]

\* the rows in the order of the file: the last row first unless top-down
StoredRows(bit_count, pic, w, h, top_down) ==
    Joined([s \in 1..h |->
               StoredRow(bit_count, pic, IF top_down THEN s - 1 ELSE h - s, w)])

ColoursOf(bit_count) ==
    CASE bit_count \in {32, 24} -> Colours
      [] bit_count = 16 -> Colours555
      [] bit_count = 8 -> PaletteColours

\* a picture stored as a DIB whose last cut bytes are missing
StoredDib(bit_count, pic, w, h, top_down, cut, overflow_checks) ==
    LET rows == StoredRows(bit_count, pic, w, h, top_down)
        whole == IF bit_count = 8 THEN Palette \o rows ELSE rows
        body == SubSeq(whole, 1, Len(whole) - cut)
    IN  [dib |-> [len |-> 40 + Len(body), header_size |-> 40, width |-> w,
                  height |-> IF top_down THEN -h ELSE h, bit_count |-> bit_count,
                  compression |-> 0,
                  colors_used |-> IF bit_count = 8 THEN 2 ELSE 0],
         body |-> body, overflow_checks |-> overflow_checks,
         picture |-> pic, cut |-> cut]

PixelInputs ==
    UNION {{StoredDib(k[1], pic, k[2][1], k[2][2], td, cut, oc) :
                pic \in Pictures(ColoursOf(k[1]), k[2][1], k[2][2]),
                td \in BOOLEAN, cut \in Cuts, oc \in BOOLEAN} :
           k \in {32, 24, 16, 8} \X PicDims}
    \cup {StoredDib(16, pic, 1, 1, td, 0, oc) :
                pic \in Pictures(AllLevels555, 1, 1), td \in BOOLEAN, oc \in BOOLEAN}

DecodePixels ==
    /\ probe.fn = "none"
    /\ Called("dib_to_png",
              dib_pixels(probe.in.val.dib, probe.in.val.body,
                         probe.in.val.overflow_checks))
    /\ ProbeOnly

SpecPixels == InitProbe(PixelInputs) /\ [][DecodePixels]_vars

(***************************************************************************)
(* SpecHash: compute_content_hash called twice, on any two byte sequences  *)
(* of HashInputs; probe.out holds the fingerprints returned so far.        *)
(***************************************************************************)
HashBytes == {0, 97, 98, 255}
HashInputs ==
    {<<>>} \cup {<<x>> : x \in HashBytes}
    \cup {<<x, y>> : x \in HashBytes, y \in HashBytes}
    \cup {<<102, 111, 111, 98, 97, 114>>}

HashCall ==
    /\ probe.fn \in {"none", "compute_content_hash"}
    /\ LET done == IF IsSome(probe.out) THEN probe.out.val ELSE <<>>
       IN  /\ Len(done) < 2
           /\ probe' = [probe EXCEPT
                  !.fn = "compute_content_hash",
                  !.out = Some(Append(done,
                      compute_content_hash(probe.in.val[Len(done) + 1])))]
    /\ ProbeOnly

SpecHash == InitProbe(HashInputs \X HashInputs) /\ [][HashCall]_vars

(***************************************************************************)
(* SpecPoison: the monitor when a holder has panicked under one of the two *)
(* mutexes, or under both, before the first raw signal.                    *)
(***************************************************************************)
Mutexes == {"PENDING_APP_INFO", "LAST_CONTENT_HASH"}

InitPoison ==
    /\ armed = FALSE /\ remaining = 0 /\ queue = <<>> /\ loopRunning = TRUE
    /\ PENDING_APP_INFO = None /\ IGNORE_NEXT = FALSE /\ LAST_CONTENT_HASH = <<>>
    /\ clipboard = EmptyClipboard /\ clipboardOpen = FALSE
    /\ apps = <<StoredApp>> /\ entries = <<StoredEntry>> /\ files = {}
    /\ cmd = [pc |-> "idle", id |-> 0] /\ ev = Ev0 /\ trail = <<>>
    /\ lastCapture = None /\ burst = {} /\ posted = 0 /\ bursts = 0
    /\ settled = 0 /\ gateLog = <<>> /\ result = EmptyContent
    /\ probe = NoProbe
    /\ poisoned \in (SUBSET Mutexes) \ {{}}
    /\ IMAGE_B64_CACHE = EmptyCache /\ ICON_CACHE = EmptyCache
    /\ cacheTrace = NoCalls

SpecPoison == InitPoison /\ [][Next]_vars

(***************************************************************************)
(* SpecImageCache, SpecIconCache: calls on one cache.  New keys are the    *)
(* numbers 1, 2, ..; the other calls (a get, the insert of a cached key, a *)
(* remove) are made on the oldest and the newest key of the queue and on   *)
(* a key never inserted, while the cache is nearly empty or nearly full.   *)
(***************************************************************************)
InitCache ==
    /\ Init
    /\ apps = <<StoredApp>>

OldKeys(c) ==
    IF c.order = <<>> THEN {0} ELSE {0, Head(c.order), c.order[Len(c.order)]}

NewKeyAllowed(max) == cacheTrace.next <= max + MaxExtraKeys

OtherCallAllowed(c, max) ==
    /\ cacheTrace.ops < MaxCacheOps
    /\ Cardinality(c.map) <= 1 \/ Cardinality(c.map) >= max - 1

\* the record of a call: used is TRUE when the call counts as a use of the key
Traced(op, key, used, gone) ==
    [next |-> IF key = cacheTrace.next THEN key + 1 ELSE cacheTrace.next,
     ops |-> IF key = cacheTrace.next THEN cacheTrace.ops ELSE cacheTrace.ops + 1,
     recent |-> IF used THEN Append(retain(cacheTrace.recent, key), key)
                ELSE IF gone THEN retain(cacheTrace.recent, key)
                ELSE cacheTrace.recent,
     last |-> [op |-> op, key |-> key]]

CacheOnly(other) ==
    UNCHANGED <<timerVars, queue, loopRunning, PENDING_APP_INFO, IGNORE_NEXT,
                LAST_CONTENT_HASH, clipboard, clipboardOpen, dbVars, cmd, ev,
                historyVars, posted, gateLog, result, probe, poisoned, other>>

ImageInsert ==
    /\ \E key \in {cacheTrace.next} \cup (OldKeys(IMAGE_B64_CACHE) \ {0}) :
        /\ IF key = cacheTrace.next THEN NewKeyAllowed(IMAGE_CACHE_MAX)
           ELSE OtherCallAllowed(IMAGE_B64_CACHE, IMAGE_CACHE_MAX)
        /\ IMAGE_B64_CACHE' = image_insert(IMAGE_B64_CACHE, key)
        /\ cacheTrace' = Traced("insert", key, TRUE, FALSE)
    /\ CacheOnly(ICON_CACHE)

ImageGet ==
    /\ OtherCallAllowed(IMAGE_B64_CACHE, IMAGE_CACHE_MAX)
    /\ \E key \in OldKeys(IMAGE_B64_CACHE) :
        /\ IMAGE_B64_CACHE' = cache_get(IMAGE_B64_CACHE, key)
        /\ cacheTrace' = Traced("get", key, key \in IMAGE_B64_CACHE.map, FALSE)
    /\ CacheOnly(ICON_CACHE)

ImageRemove ==
    /\ OtherCallAllowed(IMAGE_B64_CACHE, IMAGE_CACHE_MAX)
    /\ \E key \in OldKeys(IMAGE_B64_CACHE) :
        /\ IMAGE_B64_CACHE' = image_remove(IMAGE_B64_CACHE, key)
        /\ cacheTrace' = Traced("remove", key, FALSE, TRUE)
    /\ CacheOnly(ICON_CACHE)

SpecImageCache ==
    InitCache /\ [][ImageInsert \/ ImageGet \/ ImageRemove]_vars

IconInsert ==
    /\ \E key \in {cacheTrace.next} \cup (OldKeys(ICON_CACHE) \ {0}) :
        /\ IF key = cacheTrace.next THEN NewKeyAllowed(MAX_ICON_CACHE_SIZE)
           ELSE OtherCallAllowed(ICON_CACHE, MAX_ICON_CACHE_SIZE)
        /\ ICON_CACHE' = icon_insert(ICON_CACHE, key)
        /\ cacheTrace' = Traced("insert", key, TRUE, FALSE)
    /\ CacheOnly(IMAGE_B64_CACHE)

IconGet ==
    /\ OtherCallAllowed(ICON_CACHE, MAX_ICON_CACHE_SIZE)
    /\ \E key \in OldKeys(ICON_CACHE) :
        /\ ICON_CACHE' = cache_get(ICON_CACHE, key)
        /\ cacheTrace' = Traced("get", key, key \in ICON_CACHE.map, FALSE)
    /\ CacheOnly(IMAGE_B64_CACHE)

SpecIconCache == InitCache /\ [][IconInsert \/ IconGet]_vars

(***************************************************************************)
(* SpecPattern: Pattern::matches on texts of digit groups.                 *)
(* SpecSensitive: detect_sensitive and luhn_check on those texts, on runs  *)
(* of 12 to 20 digits, on a keyword and on a short text.                   *)
(***************************************************************************)
Groups == {<<"4", "1", "1", "1">>, <<"1", "1", "1", "1">>, <<"1", "1", "1", "2">>}
Separators == {<<>>, <<" ">>, <<"-">>}

RECURSIVE join(_, _)
join(groups, sep) ==
    IF Len(groups) = 1 THEN Head(groups)
    ELSE Head(groups) \o sep \o join(Tail(groups), sep)

GroupTexts ==
    UNION {{join(gs, sep) : gs \in [1..n -> Groups], sep \in Separators} : n \in 3..5}

DigitRuns ==
    {SubSeq(join(gs, <<>>), 1, n) : gs \in [1..5 -> Groups], n \in 12..20}

Locales == {"en", "ja", "id", "other"}

PatternInputs ==
    [pat : {CardPattern, JA[2], ID[2], EN[2]}, text : GroupTexts]

\* the keywords, each letter in either case
CaseVariants ==
    {<<t, o, k, e, n>> : t \in {"t", "T"}, o \in {"o", "O"}, k \in {"k", "K"},
                         e \in {"e", "E"}, n \in {"n", "N"}}
    \cup {<<"u5bc6", "u7801">>}

Affixes == {<<>>, <<"1">>, <<" ", "4", "1", "1", "1">>, <<"e_acute", " ">>}

KeywordTexts == {a \o kw \o b : a \in Affixes, kw \in CaseVariants, b \in Affixes}

ShortTexts ==
    {<<"4", "1", "1", "1">>, <<"t", "o", "k", "e">>,
     <<"e_acute", "e_acute", "e_acute">>, <<"e_acute", "1", "1", "1", "1">>}

SensitiveInputs ==
    [text : GroupTexts \cup DigitRuns \cup KeywordTexts \cup ShortTexts
            \cup {<<"t", "o", "k", "e", "n", " ", "1">>},
     language : Locales]

ScanText ==
    /\ probe.fn = "none"
    /\ Called("matches", matches(probe.in.val.pat, probe.in.val.text))
    /\ ProbeOnly

SpecPattern == InitProbe(PatternInputs) /\ [][ScanText]_vars

\* sensitive.rs:16-32 pass by pass: one step is one test of the loop's
\* condition and, when it holds, one pass through the body.  probe.out
\* holds the values start has had, the number of passes through the body,
\* and the value returned once the loop has been left.
ScanStep ==
    /\ probe.fn \in {"none", "scan"}
    /\ probe' =
          LET pat == probe.in.val.pat
              text == probe.in.val.text
              starts == IF probe.fn = "none" THEN <<0>> ELSE probe.out.val.starts
              passes == IF probe.fn = "none" THEN 0 ELSE probe.out.val.passes
              start == starts[Len(starts)]
              left(n, r) ==
                  [probe EXCEPT !.fn = "scan_done",
                                !.out = Some([starts |-> starts, passes |-> n,
                                              returned |-> Some(r)])]
          IN  IF ~(start < Len(text)) THEN left(passes, FALSE)
              ELSE LET found == find_from_pos(pat.re, text, start)
                   IN  IF IsNone(found) THEN left(passes + 1, FALSE)
                       ELSE IF pat.validate = "none" THEN left(passes + 1, TRUE)
                       ELSE IF validate(pat, as_str(text, found.val))
                            THEN left(passes + 1, TRUE)
                       ELSE [probe EXCEPT
                               !.fn = "scan",
                               !.out = Some([starts |-> Append(starts,
                                                 next_start(found.val, start)),
                                             passes |-> passes + 1,
                                             returned |-> None])]
    /\ ProbeOnly

\* The function runs on the calling thread with nothing to wait for: a pass
\* that can be taken is taken.  This is WF_vars(ScanStep) with ENABLED
\* written out: a step can be taken exactly until the loop has been left.
SpecScan ==
    /\ InitProbe(PatternInputs)
    /\ [][ScanStep]_vars
    /\ ([]<>(probe.fn \notin {"none", "scan"}) \/ []<><<ScanStep>>_vars)

Detect ==
    /\ probe.fn = "none"
    /\ Called("detect_sensitive",
              [sensitive |-> detect_sensitive(probe.in.val.text, probe.in.val.language),
               luhn |-> luhn_check(probe.in.val.text)])
    /\ ProbeOnly

SpecSensitive == InitProbe(SensitiveInputs) /\ [][Detect]_vars

(***************************************************************************)
(* Properties.  A step dispatches a raw signal when it shortens the queue, *)
(* and handles a settled event when it advances settled.                   *)
(***************************************************************************)
RawSignal == Len(queue') < Len(queue)
Settle == settled' # settled
Persisted == {"text_persisted", "image_persisted"}

\* C1: every raw signal re-arms the one debounce timer to the full window;
\* the pipeline runs only when the timer is set and has run out, it runs
\* once and leaves the timer unset; so the settled events and the timer
\* still set add up to the number of bursts, one settled event per burst.
C1_OneSettledEventPerBurst ==
    /\ [](settled + (IF armed THEN 1 ELSE 0) = bursts)
    /\ [][/\ RawSignal => armed' /\ remaining' = DEBOUNCE_MS /\ settled' = settled
          /\ Settle => /\ armed /\ remaining = 0
                       /\ ~armed'
                       /\ settled' = settled + 1
                       /\ ev'.outcome # "none"]_vars

\* a burst of two raw signals has been answered by one settled event
C1_Witness ==
    /\ posted = 2 /\ queue = <<>>
    /\ bursts = 1 /\ settled = 1
    /\ ~armed /\ ev.outcome \in Persisted

\* C2: a settled event that is processed with the context held in the pending
\* slot is processed with the context captured at the last raw signal of its
\* burst, not with one captured earlier in the burst or before it.
C2_ContextOfLastRawSignal ==
    [][Settle /\ ev'.source = "pending" => ev'.ctx = lastCapture]_vars

\* C3: the gate suppresses an observation exactly when its fingerprint equals
\* the recorded one, which is the fingerprint of the observation before it;
\* the first observation is never suppressed, and A, A, B, A gives
\* false, true, false, false.
C3_GateComparesLastValue ==
    /\ \A i \in 1..Len(gateLog) :
          /\ gateLog[i].fp = compute_content_hash(gateLog[i].data)
          /\ gateLog[i].suppress <=> (i > 1 /\ gateLog[i].fp = gateLog[i - 1].fp)
    /\ gateLog # <<>> =>
          /\ ~gateLog[1].suppress
          /\ LAST_CONTENT_HASH = gateLog[Len(gateLog)].fp
    /\ (/\ Len(gateLog) = 4
        /\ gateLog[1].data = gateLog[2].data
        /\ gateLog[3].data # gateLog[1].data
        /\ gateLog[4].data = gateLog[1].data)
       => <<gateLog[1].suppress, gateLog[2].suppress,
            gateLog[3].suppress, gateLog[4].suppress>> = <<FALSE, TRUE, FALSE, FALSE>>

\* the gate has seen A, A, B, A
C3_Witness ==
    /\ Len(gateLog) = 4
    /\ <<gateLog[1].data, gateLog[2].data, gateLog[3].data, gateLog[4].data>>
         = <<as_bytes(<<"a">>), as_bytes(<<"a">>), as_bytes(<<"b">>), as_bytes(<<"a">>)>>
    /\ <<gateLog[1].suppress, gateLog[2].suppress,
         gateLog[3].suppress, gateLog[4].suppress>> = <<FALSE, TRUE, FALSE, FALSE>>

\* C4: a settled event that finds IGNORE_NEXT set clears it and is discarded:
\* nothing is stored, recorded or emitted; a settled event that finds it
\* clear is not discarded by the flag and leaves it clear.
C4_FlagDiscardsOneEvent ==
    [][Settle =>
        /\ ~IGNORE_NEXT'
        /\ IGNORE_NEXT =>
              /\ ev'.outcome = "ignored"
              /\ ev'.changed = 0 /\ ev'.toast = 0 /\ ~ev'.read
              /\ UNCHANGED <<apps, entries, files, LAST_CONTENT_HASH>>
        /\ ~IGNORE_NEXT => ev'.outcome # "ignored"]_vars

\* the flag discarded one settled event, and the settled event after it was
\* processed and stored
C4_Witness ==
    /\ Len(trail) >= 2
    /\ trail[Len(trail) - 1] = "ignored"
    /\ ev.outcome \in Persisted
    /\ ev.changed = 1

\* C5: in every interleaving of copy_entry_to_clipboard with the monitor, the
\* settled event of a burst made of the application's own write only is
\* discarded: it stores nothing and emits nothing.
C5_OwnWriteDiscarded ==
    [][Settle /\ burst = {"own"} =>
        /\ ev'.changed = 0 /\ ev'.toast = 0
        /\ entries' = entries]_vars

PanicCaught == \E i \in 1..Len(trail) : trail[i] = "panicked"

\* C6: a panic in on_clipboard_change never ends the message loop: the loop
\* runs in every state, the step that panics leaves the timer unset, every
\* raw signal after it sets the timer to the full window, and every raw
\* signal waiting after it is followed by a settled event being handled.
C6_PanicDoesNotStopTheLoop ==
    /\ []loopRunning
    /\ [][/\ Settle /\ ev'.outcome = "panicked" => ~armed' /\ loopRunning'
          /\ PanicCaught /\ RawSignal => armed' /\ remaining' = DEBOUNCE_MS]_vars
    /\ (PanicCaught /\ queue # <<>>) ~> (ev.outcome # "none")

\* a settled event panicked, and the settled event after it was processed and
\* stored
C6_Witness ==
    /\ Len(trail) >= 2
    /\ trail[Len(trail) - 1] = "panicked"
    /\ loopRunning /\ ~armed
    /\ ev.outcome \in Persisted

\* C7: a settled event emits clipboard-changed and the copy notification at
\* most once each, and only after its content passed the dedup gate and its
\* entry was stored; a suppressed content, a failed app lookup, a failed
\* image file write and a failed upsert emit nothing.
C7_EmitOnlyAfterPersistence ==
    /\ ev.changed \in {0, 1} /\ ev.toast \in {0, 1}
    /\ (ev.changed = 1 \/ ev.toast = 1) =>
          /\ ev.changed = 1
          /\ ev.outcome \in Persisted
          /\ IsSome(ev.fp) /\ LAST_CONTENT_HASH = ev.fp.val
          /\ \E i \in 1..Len(entries) :
                /\ entries[i].content_hash = ev.fp.val
                /\ entries[i].created_at = settled
    /\ ev.outcome \in {"suppressed", "app_lookup_failed", "file_write_failed",
                       "upsert_failed"}
          => ev.changed = 0 /\ ev.toast = 0

\* the upsert of a settled event's content failed and nothing was emitted
C7_Witness ==
    /\ ev.outcome = "upsert_failed"
    /\ IsSome(ev.fp)
    /\ ev.changed = 0 /\ ev.toast = 0

\* C8: after a settled event has been handled, whatever its outcome, the
\* pending slot is empty.
C8_SlotEmptyAfterSettledEvent ==
    ev.outcome \in {"none", "extracted"} \/ PENDING_APP_INFO = None

\* C9: a settled event whose foreground application is the application
\* itself is discarded: the clipboard is not read, LAST_CONTENT_HASH and the
\* stored apps, entries and files stay as they are, nothing is emitted.
C9_SelfOriginDiscarded ==
    [][Settle /\ IsSome(ev'.ctx) /\ ev'.ctx.val.is_self =>
        /\ ev'.outcome = "self"
        /\ ~ev'.read
        /\ UNCHANGED <<clipboardOpen, LAST_CONTENT_HASH, apps, entries, files>>
        /\ ev'.changed = 0 /\ ev'.toast = 0]_vars

\* another application's text was on the clipboard and the settled event was
\* discarded as the application's own
C9_Witness ==
    /\ ev.outcome = "self"
    /\ ev.source = "pending"
    /\ clipboard.owner = "ext" /\ IsSome(clipboard.unicode)

HoldsText(clip) ==
    \/ clip.unicode.tag = "Some"
    \/ clip.ansi.tag = "Some" /\ Len(clip.ansi.val) > 0

HoldsImage(clip) ==
    \/ IsSome(read_png_format(clip.png))
    \/ IsSome(read_png_format(clip.image_png))
    \/ IsSome(clip.dibv5) /\ IsSome(clip.dibv5.val.decoded)
    \/ IsSome(clip.dib) /\ IsSome(clip.dib.val.decoded)

\* C10 as stated: in a bundle of read_clipboard_content text and image are
\* never both populated.
C10_NeverBoth ==
    ~(IsSome(result.text) /\ IsSome(result.image))

\* C10 amended: text and image are both populated only when the text is
\* blank; a bundle with non-blank text has no image; when the clipboard was
\* opened and holds readable text or a decodable image at least one of the
\* two is populated; a clipboard that could not be opened gives the empty
\* bundle.
C10_BothOnlyWhenTextBlank ==
    ev.outcome = "extracted" =>
        /\ IsSome(result.image) => IsNone(result.text) \/ IsBlank(result.text.val)
        /\ (ev.read /\ (HoldsText(clipboard) \/ HoldsImage(clipboard)))
              => IsSome(result.text) \/ IsSome(result.image)
        /\ (IsNone(result.text) /\ IsNone(result.image))
              => ~ev.read \/ (~HoldsText(clipboard) /\ ~HoldsImage(clipboard))
        /\ ~ev.read => result = EmptyContent

\* a clipboard with blank text and an image gave a bundle with both
C10_Witness ==
    /\ ev.outcome = "extracted"
    /\ IsSome(result.text) /\ IsBlank(result.text.val)
    /\ IsSome(result.image)

NonBlank(text) == IsSome(text) /\ ~IsBlank(text.val)

\* the rows of the table after that are new or differ from the rows before
TouchedRows(before, after) ==
    {i \in 1..Len(after) : i > Len(before) \/ after[i] # before[i]}

\* C11: when the text read from the clipboard is non-blank the image is not
\* read and the settled event stores a text record and no image file; an image
\* record is stored only when no non-blank text was read; a settled event
\* touches at most one record.
C11_TextBeforeImage ==
    [][Settle =>
        LET c == read_clipboard_content(clipboard, 1)
            touched == TouchedRows(entries, entries')
        IN  /\ NonBlank(c.text) => IsNone(c.image)
            /\ Cardinality(touched) <= 1
            /\ Len(entries') <= Len(entries) + 1
            /\ NonBlank(c.text) =>
                  /\ ev'.outcome # "image_persisted"
                  /\ files' = files
                  /\ \A i \in touched : entries'[i].content_type = "text"
            /\ ev'.outcome = "text_persisted" =>
                  /\ NonBlank(c.text)
                  /\ \E i \in touched : /\ entries'[i].content_type = "text"
                                         /\ entries'[i].text_content = c.text
            /\ ev'.outcome = "image_persisted" =>
                  /\ ~NonBlank(c.text)
                  /\ \E i \in touched : entries'[i].content_type = "image"]_vars

\* a clipboard with non-blank text and a usable image was stored as text
C11_Witness ==
    /\ ev.outcome = "text_persisted"
    /\ HoldsImage(clipboard)
    /\ Len(entries) = 2 /\ entries[2].content_type = "text"
    /\ files = {}

HasPrefix(s, prefix) ==
    /\ Len(s) >= Len(prefix)
    /\ \A i \in 1..Len(prefix) : s[i] = prefix[i]

HttpPrefixed(s) ==
    \/ HasPrefix(s, <<"h", "t", "t", "p", ":", "/", "/">>)
    \/ HasPrefix(s, <<"h", "t", "t", "p", "s", ":", "/", "/">>)

SingleLine(s) == \A i \in 1..Len(s) : s[i] # "\n"

\* the SourceURL header value and the text of the clipboard being reconciled
HeaderUrl == IF IsSome(clipboard.html) THEN clipboard.html.val.SourceURL ELSE None
ClipText == read_unicode_text(clipboard.unicode)

\* C12: after reconciliation source_url is absent or begins with http:// or
\* https://, whatever the SourceURL header and the text are.
C12_SourceUrlIsHttp ==
    ev.outcome = "reconciled" =>
        \/ IsNone(result.source_url)
        \/ HttpPrefixed(result.source_url.val)

\* a header ftp://x was dropped and the text, trimmed, took its place
C12_Witness ==
    /\ ev.outcome = "reconciled"
    /\ HeaderUrl = Some(FTP \o <<"x">>)
    /\ ClipText = Some(<<" ">> \o HTTPS \o <<"y", " ">>)
    /\ result.source_url = Some(HTTPS \o <<"y">>)

\* C13: a header SourceURL that begins with http:// or https:// is kept,
\* also when the text is a URL; any other header value is dropped, and the
\* trimmed text becomes source_url exactly when it begins with http:// or
\* https:// and holds no line break; otherwise source_url is absent.  The
\* text of the bundle is left as it was read.
C13_HeaderBeforeText ==
    ev.outcome = "reconciled" =>
        /\ result.text = ClipText
        /\ IF IsSome(HeaderUrl) /\ HttpPrefixed(HeaderUrl.val)
           THEN result.source_url = HeaderUrl
           ELSE IF /\ IsSome(ClipText)
                   /\ HttpPrefixed(trim(ClipText.val))
                   /\ SingleLine(trim(ClipText.val))
           THEN result.source_url = Some(trim(ClipText.val))
           ELSE IsNone(result.source_url)

\* the header URL was kept although the text is a URL too
C13_Witness ==
    /\ ev.outcome = "reconciled"
    /\ HeaderUrl = Some(HTTP \o <<"x">>)
    /\ ClipText = Some(HTTPS \o <<"y">>)
    /\ result.source_url = Some(HTTP \o <<"x">>)

\* C14: the clipboard is opened at the first attempt that succeeds among at
\* most 5; there is one wait after each failed attempt but the fifth; when
\* all 5 fail the bundle is empty although the clipboard holds content.
C14_OpenTriedFiveTimes ==
    probe.fn = "open" =>
        LET firstOk == probe.in.val.firstOk
            loop == probe.out.val.loop
            bundle == probe.out.val.bundle
        IN  /\ loop.attempts <= 5
            /\ loop.ok <=> firstOk \in 1..5
            /\ loop.ok => loop.attempts = firstOk /\ loop.sleeps = firstOk - 1
            /\ ~loop.ok => /\ loop.attempts = 5 /\ loop.sleeps = 4
                           /\ bundle = EmptyContent
            /\ loop.ok /\ (HoldsText(probe.in.val.clip) \/ HoldsImage(probe.in.val.clip))
                  => bundle # EmptyContent

\* OpenClipboard would have succeeded at a sixth attempt: five attempts, four
\* waits, and the text on the clipboard was not read
C14_Witness ==
    /\ probe.fn = "open"
    /\ probe.in.val.firstOk = 6
    /\ HoldsText(probe.in.val.clip)
    /\ probe.out.val.loop = [ok |-> FALSE, attempts |-> 5, sleeps |-> 4]
    /\ probe.out.val.bundle = EmptyContent

\* C15: after a settled event has been handled the clipboard is closed,
\* however the handling ended.
C15_ClipboardClosedAfterSettledEvent == ~clipboardOpen

\* C16: dib_to_png returns none, and has not allocated the raster, when the
\* buffer is shorter than 40 bytes, the width is not in 1..4096, the height is
\* 0 or beyond 4096 in absolute value (the most negative height included),
\* width * |height| is above 16,000,000, or the compression is neither 0 nor 3.
C16_DibRejectedBeforeAllocation ==
    probe.fn = "dib_to_png" =>
        LET dib == probe.in.val
            out == probe.out.val
        IN  (\/ dib.len < 40
             \/ dib.width <= 0 \/ dib.width > 4096
             \/ dib.height = 0 \/ dib.height > 4096 \/ dib.height < -4096
             \/ (/\ dib.width \in 1..4096
                 /\ dib.height \in (-4096)..4096
                 /\ dib.width * dib.height > 16000000)
             \/ (/\ dib.width \in 1..4096
                 /\ dib.height \in (-4096)..4096
                 /\ dib.width * dib.height < -16000000)
             \/ dib.compression \notin {0, 3})
            => ~out.png /\ ~out.allocated

\* a DIB of height -2^31 and otherwise sound was rejected without allocation
C16_Witness ==
    /\ probe.fn = "dib_to_png"
    /\ probe.in.val.height = I32_MIN /\ probe.in.val.width = 1
    /\ probe.in.val.len = 64 /\ probe.in.val.header_size = 40
    /\ probe.in.val.bit_count = 32 /\ probe.in.val.compression = 0
    /\ ~probe.out.val.png /\ ~probe.out.val.allocated

\* C17: every index range dib_to_png reads lies inside the buffer.
C17_DibReadsInsideBuffer ==
    probe.fn = "dib_to_png" =>
        \A r \in probe.out.val.reads :
            0 <= r[1] /\ r[1] <= r[2] /\ r[2] < probe.in.val.len

\* a truncated 8-bit DIB: a row was decoded, through the palette, and the
\* row after it was not read
C17_Witness ==
    /\ probe.fn = "dib_to_png"
    /\ probe.in.val.bit_count = 8
    /\ probe.out.val.png
    /\ Cardinality(probe.out.val.rows) = 1
    /\ unsigned_abs(probe.in.val.height) = 2

\* C18: in a DIB that dib_to_png decodes, every row whose bytes lie inside
\* the buffer is decoded into the raster, top-down or bottom-up.
C18_RowsInsideBufferDecoded ==
    (probe.fn = "dib_to_png" /\ probe.out.val.png) =>
        LET dib == probe.in.val
            out == probe.out.val
        IN  \A src_y \in 0..(unsigned_abs(dib.height) - 1) :
                out.pixel_offset + src_y * out.row_bytes + out.need <= dib.len
                    => \E r \in out.rows : r.src_y = src_y

\* the text from position i to position j is an occurrence of the regex
RECURSIVE Exact(_, _, _, _, _)
Exact(atoms, k, text, pos, j) ==
    IF k > Len(atoms) THEN pos = j
    ELSE \E n \in atoms[k].min..atoms[k].max :
            /\ pos + n <= j
            /\ \A i \in 1..n : text[pos + i] \in atoms[k].cls
            /\ Exact(atoms, k + 1, text, pos + n, j)

Occurrence(re, text, i, j) ==
    /\ holds(re.before, text, i)
    /\ holds(re.after, text, j)
    /\ \E a \in 1..Len(re.alts) : Exact(re.alts[a], 1, text, i, j)

\* the Luhn sum of a sequence of digits, by position from the right
RECURSIVE LuhnSum(_, _)
LuhnSum(digits, k) ==
    IF k > Len(digits) THEN 0
    ELSE LET d == digits[Len(digits) + 1 - k]
             doubled == IF d * 2 > 9 THEN d * 2 - 9 ELSE d * 2
         IN  (IF k % 2 = 0 THEN doubled ELSE d) + LuhnSum(digits, k + 1)

LuhnPasses(text) == LuhnSum(ascii_digits(text), 1) % 10 = 0

Accepted(pat, matched) == pat.validate = "none" \/ LuhnPasses(matched)

\* C19: Pattern::matches answers true exactly when some occurrence of the
\* pattern in the text has no validator to pass or is accepted by it.
C19_MatchesIffSomeOccurrenceAccepted ==
    probe.fn = "matches" =>
        LET pat == probe.in.val.pat
            text == probe.in.val.text
        IN  probe.out.val =
                (\E i \in 0..Len(text) : \E j \in i..Len(text) :
                    /\ Occurrence(pat.re, text, i, j)
                    /\ Accepted(pat, SubSeq(text, i + 1, j)))

\* C20: on a text of 16 digits detect_sensitive answers whether the digits
\* pass the Luhn checksum, in every locale; luhn_check accepts a string of
\* digits exactly when it has 13 to 19 of them and their Luhn sum is
\* divisible by 10.
C20_SixteenDigitsFollowLuhn ==
    probe.fn = "detect_sensitive" =>
        LET text == probe.in.val.text
            out == probe.out.val
        IN  (\A i \in 1..Len(text) : text[i] \in Digits) =>
                /\ out.luhn = (Len(text) \in 13..19 /\ LuhnPasses(text))
                /\ Len(text) = 16 => out.sensitive = LuhnPasses(text)

\* C21: detect_sensitive answers false for every text of fewer than 6
\* characters.
C21_ShortTextNeverSensitive ==
    (probe.fn = "detect_sensitive" /\ Len(probe.in.val.text) < 6)
        => ~probe.out.val.sensitive

\* the text holds the keyword at some place, each letter in either case
HoldsKeyword(text, kw) ==
    \E i \in 0..(Len(text) - Len(kw)) :
        \A j \in 1..Len(kw) :
            \/ text[i + j] = kw[j]
            \/ \E l \in 1..26 : kw[j] = Alphabet[l] /\ text[i + j] = Capitals[l]

\* C22: detect_sensitive answers true for every text of at least 6 characters
\* that holds a keyword in any letter case, in every locale.
C22_KeywordAlwaysSensitive ==
    (/\ probe.fn = "detect_sensitive"
     /\ Len(probe.in.val.text) >= 6
     /\ \E kw \in KEYWORDS : HoldsKeyword(probe.in.val.text, kw))
        => probe.out.val.sensitive

\* "1ToKeN" followed by more, in locale ja, was found sensitive
C22_Witness ==
    /\ probe.fn = "detect_sensitive"
    /\ probe.in.val.language = "ja"
    /\ Len(probe.in.val.text) >= 6
    /\ SubSeq(probe.in.val.text, 1, 6) = <<"1", "T", "o", "K", "e", "N">>
    /\ probe.out.val.sensitive

\* C23: the image cache never holds more than 50 entries.
C23_ImageCacheAtMost50 == Cardinality(IMAGE_B64_CACHE.map) <= 50

\* C24: the icon cache never holds more than 200 entries.
C24_IconCacheAtMost200 == Cardinality(ICON_CACHE.map) <= 200

\* the icon cache is full after more than 200 keys were inserted, and the
\* last call inserted a key that was cached already
C24_Witness ==
    /\ Cardinality(ICON_CACHE.map) = 200
    /\ cacheTrace.next > 201
    /\ cacheTrace.last.op = "insert"
    /\ cacheTrace.last.key < cacheTrace.next - 1

\* the cached key whose last use is the oldest
LeastRecentlyUsed(map, recent) ==
    recent[CHOOSE i \in 1..Len(recent) :
               /\ recent[i] \in map
               /\ \A j \in 1..(i - 1) : recent[j] \notin map]

\* a call on the cache that went from before to after kept to the order of use
KeepsOrderOfUse(before, after) ==
    /\ (cacheTrace'.last.op = "insert" /\ before.map \ after.map # {})
            => before.map \ after.map =
                   {LeastRecentlyUsed(before.map, cacheTrace.recent)}
    /\ (cacheTrace'.last.op = "get" /\ cacheTrace'.last.key \in before.map)
            => after.order[Len(after.order)] = cacheTrace'.last.key

\* C30: in both caches an insert evicts the entry used least recently, and
\* a get of a cached key makes it the entry used most recently.
C30_EvictsLeastRecentlyUsed ==
    [][/\ IMAGE_B64_CACHE' # IMAGE_B64_CACHE
           => KeepsOrderOfUse(IMAGE_B64_CACHE, IMAGE_B64_CACHE')
       /\ ICON_CACHE' # ICON_CACHE
           => KeepsOrderOfUse(ICON_CACHE, ICON_CACHE')]_vars

Fnv1a64Vectors ==
    { [data |-> <<>>,
       hex |-> <<"c", "b", "f", "2", "9", "c", "e", "4", "8", "4", "2", "2", "2", "3", "2", "5">>],
      [data |-> <<0>>,
       hex |-> <<"a", "f", "6", "3", "b", "d", "4", "c", "8", "6", "0", "1", "b", "7", "d", "f">>],
      [data |-> <<97>>,
       hex |-> <<"a", "f", "6", "3", "d", "c", "4", "c", "8", "6", "0", "1", "e", "c", "8", "c">>],
      [data |-> <<98>>,
       hex |-> <<"a", "f", "6", "3", "d", "f", "4", "c", "8", "6", "0", "1", "f", "1", "a", "5">>],
      [data |-> <<255>>,
       hex |-> <<"a", "f", "6", "4", "7", "2", "4", "c", "8", "6", "0", "2", "e", "b", "6", "e">>],
      [data |-> <<0, 0>>,
       hex |-> <<"0", "8", "3", "2", "8", "8", "0", "7", "b", "4", "e", "b", "6", "f", "e", "d">>],
      [data |-> <<0, 97>>,
       hex |-> <<"0", "8", "3", "2", "6", "7", "0", "7", "b", "4", "e", "b", "3", "7", "d", "a">>],
      [data |-> <<0, 98>>,
       hex |-> <<"0", "8", "3", "2", "6", "6", "0", "7", "b", "4", "e", "b", "3", "6", "2", "7">>],
      [data |-> <<0, 255>>,
       hex |-> <<"0", "8", "3", "1", "c", "9", "0", "7", "b", "4", "e", "a", "2", "b", "6", "0">>],
      [data |-> <<97, 0>>,
       hex |-> <<"0", "8", "9", "b", "e", "2", "0", "7", "b", "5", "4", "4", "f", "1", "e", "4">>],
      [data |-> <<97, 97>>,
       hex |-> <<"0", "8", "9", "c", "4", "3", "0", "7", "b", "5", "4", "5", "9", "6", "b", "7">>],
      [data |-> <<97, 98>>,
       hex |-> <<"0", "8", "9", "c", "4", "4", "0", "7", "b", "5", "4", "5", "9", "8", "6", "a">>],
      [data |-> <<97, 255>>,
       hex |-> <<"0", "8", "9", "b", "c", "9", "0", "7", "b", "5", "4", "4", "c", "7", "6", "9">>],
      [data |-> <<98, 0>>,
       hex |-> <<"0", "8", "a", "6", "1", "4", "0", "7", "b", "5", "4", "d", "9", "b", "5", "f">>],
      [data |-> <<98, 97>>,
       hex |-> <<"0", "8", "a", "6", "3", "3", "0", "7", "b", "5", "4", "d", "d", "0", "0", "c">>],
      [data |-> <<98, 98>>,
       hex |-> <<"0", "8", "a", "6", "3", "6", "0", "7", "b", "5", "4", "d", "d", "5", "2", "5">>],
      [data |-> <<98, 255>>,
       hex |-> <<"0", "8", "a", "5", "c", "9", "0", "7", "b", "5", "4", "d", "1", "b", "e", "e">>],
      [data |-> <<255, 0>>,
       hex |-> <<"0", "a", "9", "9", "a", "6", "0", "7", "b", "6", "f", "6", "0", "b", "e", "a">>],
      [data |-> <<255, 97>>,
       hex |-> <<"0", "a", "9", "9", "4", "7", "0", "7", "b", "6", "f", "5", "6", "a", "7", "d">>],
      [data |-> <<255, 98>>,
       hex |-> <<"0", "a", "9", "9", "4", "4", "0", "7", "b", "6", "f", "5", "6", "5", "6", "4">>],
      [data |-> <<255, 255>>,
       hex |-> <<"0", "a", "9", "9", "c", "9", "0", "7", "b", "6", "f", "6", "4", "7", "6", "3">>],
      [data |-> <<102, 111, 111, 98, 97, 114>>,
       hex |-> <<"8", "5", "9", "4", "4", "1", "7", "1", "f", "7", "3", "9", "6", "7", "e", "8">>]}

\* C26: every fingerprint compute_content_hash returns is the FNV-1a digest
\* of its argument in 16 hexadecimal digits, whatever was hashed before, so
\* equal arguments give equal fingerprints; no fingerprint is the empty
\* string the gate starts with.
C26_FingerprintIsFnv1a ==
    probe.fn = "compute_content_hash" =>
        /\ \A i \in 1..Len(probe.out.val) :
               /\ [data |-> probe.in.val[i], hex |-> probe.out.val[i]]
                      \in Fnv1a64Vectors
               /\ Len(probe.out.val[i]) = 16
               /\ probe.out.val[i] # <<>>
        /\ \A i, j \in 1..Len(probe.out.val) :
               probe.in.val[i] = probe.in.val[j]
                   => probe.out.val[i] = probe.out.val[j]

\* "foobar" was hashed after another content and again gave 85944171f73967e8
C26_Witness ==
    /\ probe.fn = "compute_content_hash"
    /\ Len(probe.out.val) = 2
    /\ probe.in.val[1] = <<97>>
    /\ probe.in.val[2] = <<102, 111, 111, 98, 97, 114>>
    /\ probe.out.val[2] = <<"8", "5", "9", "4", "4", "1", "7", "1",
                            "f", "7", "3", "9", "6", "7", "e", "8">>

(***************************************************************************)
(* The pixels of dib_to_png, under SpecPixels.                             *)
(***************************************************************************)
PixelsDecoded == probe.fn = "dib_to_png" /\ IsSome(probe.out)

\* floor(v * 255 / 31) for the three channels of a 5-5-5 colour
Rescaled555(c) == <<(c[1] * 255) \div 31, (c[2] * 255) \div 31,
                    (c[3] * 255) \div 31, 255>>

\* C27: a whole 16-bit DIB is decoded without any product leaving the range
\* of its integer type (so nothing panics), and each 5-bit channel v of each
\* pixel comes out as floor(v * 255 / 31): 0 as 0 and 31 as 255.
C27_ChannelsRescaledLinearly ==
    (/\ PixelsDecoded
     /\ probe.in.val.dib.bit_count = 16
     /\ probe.in.val.cut = 0)
    => /\ probe.out.val.outcome = "png"
       /\ \A p \in DOMAIN probe.out.val.img :
              probe.out.val.img[p] = Rescaled555(probe.in.val.picture[p])

\* the smallest multiple of 4 that holds the bytes of a row
PaddedStride(dib) ==
    LET used == dib.width * (dib.bit_count \div 8)
    IN  CHOOSE s \in used..(used + 3) : s % 4 = 0

\* C28: when the buffer is complete and a raster is produced, output row y is
\* read from source row y if the stored height is negative and from source
\* row |height| - 1 - y otherwise, source row s starting s padded strides
\* into the pixels; and a 24-bit DIB gives back the pixel values of the
\* picture it stores, row for row from the top.
C28_RasterIsTopDown ==
    (/\ PixelsDecoded
     /\ probe.out.val.outcome = "png"
     /\ probe.in.val.cut = 0)
    => LET dib == probe.in.val.dib
           h == IF dib.height < 0 THEN -dib.height ELSE dib.height
           src(y) == IF dib.height < 0 THEN y ELSE h - 1 - y
       IN  /\ probe.out.val.rows =
                  {[y |-> y, src_y |-> src(y),
                    row_start |-> src(y) * PaddedStride(dib)] : y \in 0..(h - 1)}
           /\ dib.bit_count = 24 =>
                  \A p \in DOMAIN probe.out.val.img :
                      probe.out.val.img[p] =
                          <<probe.in.val.picture[p][1], probe.in.val.picture[p][2],
                            probe.in.val.picture[p][3], 255>>

\* a 24-bit bottom-up DIB of two rows of different colours, one pixel wide
\* (one byte of padding after each row), decoded
C28_Witness ==
    /\ PixelsDecoded
    /\ probe.out.val.outcome = "png"
    /\ probe.in.val.cut = 0
    /\ probe.in.val.dib.bit_count = 24
    /\ probe.in.val.dib.height = 2
    /\ probe.in.val.dib.width = 1
    /\ probe.in.val.picture[<<0, 0>>] # probe.in.val.picture[<<1, 0>>]
    /\ probe.out.val.rows # {}

\* C29: each pixel of a decoded row of a 32-bit DIB is (R, G, B, A) from the
\* source bytes B, G, R, A, alpha 0 replaced by 255 and any other alpha kept;
\* a whole top-down DIB of one colour decodes to that colour (alpha 0 made
\* opaque) at every pixel.
C29_Bgra32Pixels ==
    (/\ PixelsDecoded
     /\ probe.out.val.outcome = "png"
     /\ probe.in.val.dib.bit_count = 32)
    => LET in == probe.in.val
           img == probe.out.val.img
           opaque(a) == IF a = 0 THEN 255 ELSE a
       IN  /\ \A r \in probe.out.val.rows : \A x \in 0..(in.dib.width - 1) :
                  LET o == r.row_start + 4 * x
                  IN  img[<<r.y, x>>] = <<in.body[o + 3], in.body[o + 2],
                                          in.body[o + 1], opaque(in.body[o + 4])>>
           /\ \A c \in Colours :
                  (/\ in.cut = 0 /\ in.dib.height < 0
                   /\ \A p \in DOMAIN in.picture : in.picture[p] = c)
                  => \A p \in DOMAIN img :
                         /\ img[p] = <<c[1], c[2], c[3], opaque(c[4])>>
                         /\ c[4] # 0 => img[p] = c

\* a whole top-down 32-bit DIB of two by two pixels of one colour whose
\* alpha byte is 0, decoded
C29_Witness ==
    /\ PixelsDecoded
    /\ probe.out.val.outcome = "png"
    /\ probe.in.val.dib.bit_count = 32
    /\ probe.in.val.cut = 0
    /\ probe.in.val.dib.height = -2
    /\ probe.in.val.dib.width = 2
    /\ \A p \in DOMAIN probe.in.val.picture :
           probe.in.val.picture[p] = <<10, 20, 30, 0>>
    /\ \A p \in DOMAIN probe.out.val.img :
           probe.out.val.img[p] = <<10, 20, 30, 255>>

C32_FlagDropsOnlyOwnWrites ==
    [][Settle /\ ev'.outcome = "ignored" => burst = {"own"}]_vars

\* C33: the dedup gate suppresses a settled event's content only when an
\* entry with that content's fingerprint is stored: a content whose
\* persisting failed is not suppressed when it comes again.
C33_SuppressedOnlyWhenPersisted ==
    ev.outcome = "suppressed" =>
        /\ IsSome(ev.fp)
        /\ \E i \in 1..Len(entries) : entries[i].content_hash = ev.fp.val

\* C35: a settled event that finds IGNORE_NEXT set, or whose application is
\* the application itself, or for which no application is known at capture
\* nor at settle time, is discarded before the clipboard is read and leaves
\* LAST_CONTENT_HASH as it was.
C35_DiscardedEventKeepsFingerprint ==
    [][(/\ Settle
        /\ \/ IGNORE_NEXT
           \/ IsNone(ev'.ctx)
           \/ ev'.ctx.val.is_self)
       => /\ ev'.outcome \in {"ignored", "no_app", "self"}
          /\ ~ev'.read
          /\ LAST_CONTENT_HASH' = LAST_CONTENT_HASH]_vars

\* a content was recorded by one settled event, and the settled event after
\* it was discarded as the application's own with the record still in place
C35_Witness ==
    /\ Len(trail) = 2
    /\ ev.outcome = "self"
    /\ LAST_CONTENT_HASH # <<>>

\* C36: after a settled event that carried an image has been handled, the
\* file named for it is in the images directory exactly when the event
\* inserted an entry that refers to that name; after a duplicate or a failed
\* upsert the file is gone, and no file is left without such an entry.
C36_ImageFileIffEntryInserted ==
    [][(Settle /\ IsSome(ev'.fp)) =>
        LET name == image_filename(settled + 1, ev'.fp.val)
        IN  (\E f \in files' : f.name = name)
            <=> (\E i \in (Len(entries) + 1)..Len(entries') :
                    entries'[i].image_path = Some(name))]_vars

(***************************************************************************)
(* The upserts, under SpecUpsert.                                          *)
(***************************************************************************)
Triple(e) == <<e.app_id, e.content_type, e.content_hash>>

\* C37: the table never holds two entries with the same app, content type
\* and content hash; an upsert of a stored triple inserts no row: it sets
\* that entry's timestamp to the time of the call, replaces its source URL
\* and HTML only by values that are given, and leaves every other entry and
\* column as it was; an upsert of a triple not stored appends one row.
C37_OneEntryPerTriple ==
    /\ [](\A i, j \in 1..Len(entries) : Triple(entries[i]) = Triple(entries[j]) => i = j)
    /\ [][settled' # settled =>
            LET key == trail'[Len(trail')]
                old == {i \in 1..Len(entries) : Triple(entries[i]) = key}
            IN  IF old = {}
                THEN /\ Len(entries') = Len(entries) + 1
                     /\ Triple(entries'[Len(entries')]) = key
                     /\ \A i \in 1..Len(entries) : entries'[i] = entries[i]
                ELSE /\ Len(entries') = Len(entries)
                     /\ \A i \in 1..Len(entries) :
                          IF i \in old
                          THEN /\ entries'[i].created_at = settled'
                               /\ entries'[i].source_url
                                    \in {entries[i].source_url, Some(HTTPS \o <<"x">>)}
                               /\ IsSome(entries[i].source_url) =>
                                    IsSome(entries'[i].source_url)
                               /\ IsSome(entries[i].html_content) =>
                                    entries'[i].html_content = entries[i].html_content
                               /\ [entries'[i] EXCEPT !.created_at = 0,
                                       !.source_url = None, !.html_content = None]
                                  = [entries[i] EXCEPT !.created_at = 0,
                                       !.source_url = None, !.html_content = None]
                          ELSE entries'[i] = entries[i]]_vars

\* one application copied A, then B, then A again: two entries, one of them
\* for A, refreshed by the third call
C37_Witness ==
    /\ Len(trail) = 3
    /\ trail[1] = trail[3] /\ trail[2] # trail[1] /\ trail[2][1] = trail[1][1]
    /\ Len(entries) = 2
    /\ Triple(entries[1]) = trail[1]
    /\ entries[1].created_at = 3

(***************************************************************************)
(* The retention policies, under SpecRetention.                            *)
(***************************************************************************)
Applied == probe.fn = "apply_retention_policy" /\ IsSome(probe.out)

\* the rows of the table before the pass that are not in the table after it
Deleted ==
    LET kept == {entries[k].id : k \in 1..Len(entries)}
    IN  {probe.in.val.tbl[i] :
            i \in {j \in 1..Len(probe.in.val.tbl) : probe.in.val.tbl[j].id \notin kept}}

\* C34: the paths apply_retention_policy returns are the image paths of the
\* rows it deleted, no more and no fewer, under every policy; none of them
\* is the image path of a row that remains, and after the caller has
\* removed the returned files every remaining image row still has its file.
C34_ReturnsFilesOfDeletedEntries ==
    Applied =>
        /\ probe.out.val = {r.image_path.val : r \in {d \in Deleted : IsSome(d.image_path)}}
        /\ \A k \in 1..Len(entries) :
              IsSome(entries[k].image_path) =>
                 /\ entries[k].image_path.val \notin probe.out.val
                 /\ \E f \in files : f.name = entries[k].image_path.val

\* C38: no policy deletes a favorite row, and a count policy N leaves at
\* most N rows that are not favorites.
C38_FavoritesKeptCountEnforced ==
    Applied =>
        /\ \A d \in Deleted : ~d.is_favorite
        /\ probe.in.val.policy = "500" =>
              Cardinality({k \in 1..Len(entries) : ~entries[k].is_favorite}) <= 500

\* the count policy 500 ran on a table of 501 rows that are not favorites
\* and one older favorite: the favorite is kept, 500 others remain
C38_Witness ==
    /\ Applied
    /\ probe.in.val.policy = "500"
    /\ Len(probe.in.val.tbl) = 502
    /\ probe.in.val.tbl[1].is_favorite /\ probe.in.val.tbl[1].created_at = 1
    /\ Len(entries) = 501
    /\ entries[1].is_favorite
    /\ Cardinality(Deleted) = 1


(***************************************************************************)
(* The loop of Pattern::matches, under SpecScan.                           *)
(***************************************************************************)
\* C39: Pattern::matches terminates: from one pass of its loop to the next
\* the scan position strictly increases and never passes the end of the
\* text, the body runs at most as many times as the text has bytes, and
\* the loop is left, with the value the function returns.
C39_ScanAdvancesAndEnds ==
    /\ [](probe.fn \in {"scan", "scan_done"} =>
            LET text == probe.in.val.text
                starts == probe.out.val.starts
            IN  /\ \A i \in 1..(Len(starts) - 1) : starts[i] < starts[i + 1]
                /\ \A i \in 1..Len(starts) : starts[i] <= Len(text)
                /\ probe.out.val.passes <= Len(text)
                /\ probe.fn = "scan_done" =>
                      probe.out.val.returned = Some(matches(probe.in.val.pat, text)))
    /\ probe.fn = "none" ~> probe.fn = "scan_done"

\* the loop was left after a match that the validator rejected had moved
\* the scan position to its end, and a second pass had found nothing more
C39_Witness ==
    /\ probe.fn = "scan_done"
    /\ probe.out.val.passes = 2
    /\ Len(probe.out.val.starts) = 2
    /\ probe.out.val.starts[2] > 1
    /\ probe.out.val.starts[2] < Len(probe.in.val.text)
    /\ probe.out.val.returned = Some(FALSE)

====
